---- MODULE Spec2Model ----
(***************************************************************************)
(* Bar-by-bar backtest simulators of the signals bot:                      *)
(*   ComprehensiveBacktester.backtest_strategy (src/src/comprehensive_     *)
(*   backtest.py) and BacktestEngine.backtest_signal (src/src/backtest_    *)
(*   engine.py).                                                           *)
(* One engine object is constructed (Init) and backtests are run on it,    *)
(* one loop iteration per step.  Python floats are modelled by exact       *)
(* rationals <<numerator, denominator>>; the Sharpe ratio (a square root)  *)
(* is carried by the empty result only, where it is 0.                     *)
(* Further down: the statistics functions on closed trade lists            *)
(* (SpecStats), EnhancedSignalEngine.apply_strict_signal_rules with its    *)
(* sub-evaluators (SpecSignal, src/src/enhanced_signal_engine.py) and      *)
(* EnhancedRiskManager (SpecRisk, src/src/enhanced_risk_manager.py).       *)
(***************************************************************************)
EXTENDS Integers, Sequences, FiniteSets, TLC

(***************************************************************************)
(* Exact rational arithmetic (Python float expressions).                   *)
(***************************************************************************)
Abs(n) == IF n < 0 THEN -n ELSE n

RECURSIVE GCD(_, _)
GCD(a, b) == IF b = 0 THEN a ELSE GCD(b, a % b)

Rat(n, d) ==
    LET g == GCD(Abs(n), Abs(d))
        s == IF d < 0 THEN -1 ELSE 1
    IN  <<(s * n) \div g, (s * d) \div g>>

R(n) == <<n, 1>>

RAdd(a, b) ==
    LET g == GCD(a[2], b[2])
    IN  Rat(a[1] * (b[2] \div g) + b[1] * (a[2] \div g), (a[2] \div g) * b[2])

RNeg(a) == <<-a[1], a[2]>>

RSub(a, b) == RAdd(a, RNeg(b))

RMul(a, b) ==
    LET x == Rat(a[1], b[2])
        y == Rat(b[1], a[2])
    IN  <<x[1] * y[1], x[2] * y[2]>>

\* a / b for b # 0 (Python raises ZeroDivisionError otherwise; every
\* division of the engines is guarded or has a non-zero divisor)
RDiv(a, b) == RMul(a, Rat(b[2], b[1]))

RLt(a, b) ==
    LET g == GCD(a[2], b[2])
    IN  a[1] * (b[2] \div g) < b[1] * (a[2] \div g)

RLe(a, b) == ~RLt(b, a)

RAbs(a) == <<Abs(a[1]), a[2]>>

\* Python max(a, b): b when b > a, else a
RMax(a, b) == IF RLt(a, b) THEN b ELSE a

Zero == R(0)

(***************************************************************************)
(* Program constants and bounds.                                           *)
(***************************************************************************)
\* range(100, len(df)) and the len(df) < 100 guard
MinWindow == 100
\* confidence >= 55 of the entry condition
MinConfidence == 55
\* default starting_balance of both constructors
DefaultBalance == 10000
\* number of candles after the warm-up window in the longest series
MaxBars == 3
\* the same for the series that carry no ATR column
MaxBarsNoATR == 2

\* risk_per_trade / 100 with the constructors' defaults (2.0 and 1.0)
RiskFraction(e) == IF e = "CB" THEN Rat(2, 100) ELSE Rat(1, 100)

\* a local name not yet assigned: a string, or a number
Unbound == "unbound"
UnboundNum == <<0, 0>>
\* the signal function has not been asked about this frame yet
NotAsked == [raises |-> FALSE, signal |-> Unbound, confidence |-> 0]

\* the candles the series are built from: close price and ATR indicator
BarKinds ==
    { [close |-> 1000, ATR |-> 0],
      [close |-> 996,  ATR |-> 2],
      [close |-> 1008, ATR |-> 2] }

WarmBar == [close |-> 1000, ATR |-> 0]

\* a frame of n candles after MinWindow warm-up rows
Frames(n) ==
    { [k \in 1..(MinWindow + n) |-> IF k <= MinWindow THEN WarmBar ELSE t[k - MinWindow]] :
        t \in [1..n -> BarKinds] }

\* a series one candle short of the warm-up window
ShortFrame == [k \in 1..(MinWindow - 1) |-> WarmBar]

\* the same frame without an ATR column
DropATR(f) == [k \in DOMAIN f |-> [close |-> f[k].close]]

\* what the signal function can do on one call
Raise == [raises |-> TRUE, signal |-> "NEUTRAL", confidence |-> 0]

SignalOutcomes ==
    { Raise,
      [raises |-> FALSE, signal |-> "NEUTRAL", confidence |-> 0],
      [raises |-> FALSE, signal |-> "BUY",  confidence |-> 55],
      [raises |-> FALSE, signal |-> "SELL", confidence |-> 55],
      [raises |-> FALSE, signal |-> "BUY",  confidence |-> 54] }

VARIABLES
    engine,           \* "CB" ComprehensiveBacktester, "BE" BacktestEngine
    df,               \* the candle series handed to every run
    sigmemo,          \* the signal function: rows passed -> outcome (NotAsked until asked)
    pc,               \* "idle", "loop", "done"
    returned,         \* the results returned to the caller, one per finished run
    i,                \* loop index (0-based row of df)
    sig_rows,         \* len() of the frame handed to signal_func on this bar
    current_price,
    signal,
    confidence,
    in_trade,
    entry_data,       \* CB
    exit_reason,      \* CB
    trades,
    equity_curve,     \* CB local / BE self.equity_curve
    current_balance,  \* CB local / BE self.current_balance
    peak_equity,      \* BE
    trough_equity,    \* BE
    self_trades,      \* BE self.trades
    be,               \* BE locals: entry_price, entry_index, entry_signal,
                      \* entry_atr, stop_loss, take_profit, position_size
    decision,         \* EnhancedSignalEngine: what apply_strict_signal_rules returned
    evaluated,        \* EnhancedSignalEngine: the sub-evaluators it called
    account_balance,  \* EnhancedRiskManager self.account_balance
    peak_balance,     \* EnhancedRiskManager self.peak_balance
    validation_results, \* EnhancedRiskManager: what the last call returned
    config,           \* BotConfig self.config
    bot,              \* SignalsBotEngine: what its constructor and its analyses left
    runner,           \* AssetBacktestRunner.run_all_backtests: its locals
    consecutive_losses, \* RiskManager self.consecutive_losses
    cumulative_losses,  \* RiskManager self.cumulative_losses
    recorded,         \* RiskManager: the record_loss / record_win calls made so far
    risk_summary      \* RiskManager: what get_risk_summary returned last

vars == <<engine, df, sigmemo, pc, returned, i, sig_rows, current_price, signal,
          confidence, in_trade, entry_data, exit_reason, trades, equity_curve,
          current_balance, peak_equity, trough_equity, self_trades, be,
          decision, evaluated, account_balance, peak_balance, validation_results,
          config, bot, runner, consecutive_losses, cumulative_losses, recorded,
          risk_summary>>

\* the state of the signal engine and of the risk manager
signal_vars == <<decision, evaluated>>
risk_vars == <<account_balance, peak_balance, validation_results>>
\* the state of the bot engine, of the backtest runner and of the loss record
bot_vars == <<config, bot>>
loss_vars == <<consecutive_losses, cumulative_losses, recorded, risk_summary>>
tool_vars == <<bot_vars, runner, loss_vars>>

starting_balance == R(DefaultBalance)
risk_per_trade == RiskFraction(engine)

\* row j (0-based) of df: df.iloc[j]
Row(j) == df[j + 1]
\* df.iloc[-1]
LastRow == df[Len(df)]
\* bar.get('ATR', default)
GetATR(bar, default) == IF "ATR" \in DOMAIN bar THEN R(bar.ATR) ELSE default

NoEntry == [signal |-> "NONE"]
NoLocals == [entry_price |-> Zero, entry_index |-> 0, entry_signal |-> Unbound,
             entry_atr |-> UnboundNum, stop_loss |-> UnboundNum,
             take_profit |-> UnboundNum, position_size |-> UnboundNum]

\* no decision taken, no validation made
NoDecision == [signal |-> Unbound]
NoValidation == [allowed |-> FALSE, reasons |-> <<>>, checks |-> {}, called |-> "none"]

\* no bot engine, no backtest runner, no RiskManager constructed
NoTools ==
    /\ config = <<>>
    /\ bot = <<>>
    /\ runner = <<>>
    /\ consecutive_losses = 0
    /\ cumulative_losses = Zero
    /\ recorded = <<>>
    /\ risk_summary = <<>>

\* no signal engine, no risk manager constructed
NoEngines ==
    /\ NoTools
    /\ decision = NoDecision
    /\ evaluated = {}
    /\ account_balance = Zero
    /\ peak_balance = Zero
    /\ validation_results = NoValidation

\* __init__ of either class, then the inputs of the runs
Init ==
    /\ engine \in {"CB", "BE"}
    /\ \/ df = ShortFrame
       \/ \E n \in 0..MaxBars : df \in Frames(n)
       \/ \E n \in 0..MaxBarsNoATR : df \in { DropATR(f) : f \in Frames(n) }
    /\ sigmemo = [r \in 1..Len(df) |-> NotAsked]
    /\ pc = "idle"
    /\ returned = <<>>
    /\ i = 0
    /\ sig_rows = 0
    /\ current_price = Zero
    /\ signal = Unbound
    /\ confidence = 0
    /\ in_trade = FALSE
    /\ entry_data = NoEntry
    /\ exit_reason = Unbound
    /\ trades = <<>>
    /\ equity_curve = <<starting_balance>>
    /\ current_balance = starting_balance
    /\ peak_equity = starting_balance
    /\ trough_equity = starting_balance
    /\ self_trades = <<>>
    /\ be = NoLocals
    /\ NoEngines

(***************************************************************************)
(* The signal function.                                                    *)
(***************************************************************************)
Min(a, b) == IF a < b THEN a ELSE b

\* df.iloc[:n]
Iloc(n) == SubSeq(df, 1, Min(n, Len(df)))

\* mutant: the whole series is handed over (df instead of df.iloc[:j+1])
SignalFrame_WholeSeries(j) == Iloc(Len(df))

\* the frame handed to signal_func at bar j: df.iloc[:j+1]
SignalFrame(j) == Iloc(j + 1)

\* signal_func(frame) answers out: a pure function of the rows it is given
Answers(frame, out) ==
    /\ sigmemo[Len(frame)] \in {NotAsked, out}
    /\ sigmemo' = [sigmemo EXCEPT ![Len(frame)] = out]
    /\ sig_rows' = Len(frame)

(***************************************************************************)
(* ComprehensiveBacktester                                                 *)
(***************************************************************************)
\* the except branch: a raising signal function gives NEUTRAL, 0
CB_Signal(out) == IF out.raises THEN "NEUTRAL" ELSE out.signal
CB_Confidence(out) == IF out.raises THEN 0 ELSE out.confidence

\* mutant: the confidence floor is forgotten
CB_EntryCond_NoConfidence(intr, sig, conf) ==
    ~intr /\ sig \in {"BUY", "SELL"}

CB_EntryCond(intr, sig, conf) ==
    ~intr /\ sig \in {"BUY", "SELL"} /\ conf >= MinConfidence

\* atr = max(bar.get('ATR', price * 0.02), price * 0.001)
CB_ATR(bar) ==
    LET price == R(bar.close)
    IN  RMax(GetATR(bar, RMul(price, Rat(2, 100))), RMul(price, Rat(1, 1000)))

\* mutant: the SELL stop is placed like the BUY stop, below the entry
CB_StopLoss_Below(sig, price, atr) == RSub(price, RMul(atr, R(2)))

CB_StopLoss(sig, price, atr) ==
    IF sig = "BUY" THEN RSub(price, RMul(atr, R(2))) ELSE RAdd(price, RMul(atr, R(2)))

CB_TakeProfit(sig, price, atr) ==
    IF sig = "BUY" THEN RAdd(price, RMul(atr, R(4))) ELSE RSub(price, RMul(atr, R(4)))

CB_RiskAmount(balance) == RMul(balance, risk_per_trade)

\* entry_data of a position opened at bar j
CB_Entry(j, sig, conf, balance) ==
    LET price == R(Row(j).close)
        atr == CB_ATR(Row(j))
        stop == CB_StopLoss(sig, price, atr)
        risk_amount == CB_RiskAmount(balance)
        risk_distance == RAbs(RSub(price, stop))
    IN  [ entry_time |-> j, entry_price |-> price, entry_bar |-> j,
          signal |-> sig, confidence |-> conf,
          quantity |-> IF RLt(Zero, risk_distance)
                         THEN RDiv(risk_amount, risk_distance) ELSE Zero,
          stop_loss |-> stop, take_profit |-> CB_TakeProfit(sig, price, atr),
          atr |-> atr, risk_amount |-> risk_amount,
          risk_distance |-> risk_distance ]

CB_HitStopLoss(e, price) ==
    IF e.signal = "BUY" THEN RLe(price, e.stop_loss) ELSE RLe(e.stop_loss, price)

\* the elif: the target is looked at only when the stop did not trigger
CB_HitTakeProfit(e, price) ==
    /\ ~CB_HitStopLoss(e, price)
    /\ IF e.signal = "BUY" THEN RLe(e.take_profit, price) ELSE RLe(price, e.take_profit)

\* mutant: any signal other than the position's direction closes it
CB_ExitCond_OnReversal(e, price, sig) ==
    CB_HitStopLoss(e, price) \/ CB_HitTakeProfit(e, price) \/ sig # e.signal

CB_ExitCond(e, price, sig) ==
    CB_HitStopLoss(e, price) \/ CB_HitTakeProfit(e, price) \/ sig = "NEUTRAL"

CB_ExitReason(e, price) ==
    IF CB_HitTakeProfit(e, price) THEN "TP"
    ELSE IF CB_HitStopLoss(e, price) THEN "SL" ELSE "Signal"

\* mutant: the SELL branch is computed like the BUY branch
CB_Pnl_Unsigned(e, exit_price) ==
    RMul(RSub(exit_price, e.entry_price), e.quantity)

CB_Pnl(e, exit_price) ==
    IF e.signal = "BUY"
      THEN RMul(RSub(exit_price, e.entry_price), e.quantity)
      ELSE RMul(RSub(e.entry_price, exit_price), e.quantity)

\* mutant: the trade is stamped with its entry time as exit time
CB_Trade_ExitAtEntry(e, exit_time, exit_price, status) ==
    LET pnl == CB_Pnl(e, exit_price)
    IN  [ entry_time |-> e.entry_time, entry_price |-> e.entry_price,
          exit_time |-> e.entry_time, exit_price |-> exit_price,
          direction |-> e.signal, quantity |-> e.quantity,
          risk |-> e.risk_amount,
          reward |-> RMul(RMul(e.quantity, e.atr), R(4)),
          pnl |-> pnl,
          pnl_percent |-> IF RLt(Zero, e.risk_amount)
                            THEN RMul(RDiv(pnl, e.risk_amount), R(100)) ELSE Zero,
          status |-> status ]

CB_Trade(e, exit_time, exit_price, status) ==
    LET pnl == CB_Pnl(e, exit_price)
    IN  [ entry_time |-> e.entry_time, entry_price |-> e.entry_price,
          exit_time |-> exit_time, exit_price |-> exit_price,
          direction |-> e.signal, quantity |-> e.quantity,
          risk |-> e.risk_amount,
          reward |-> RMul(RMul(e.quantity, e.atr), R(4)),
          pnl |-> pnl,
          pnl_percent |-> IF RLt(Zero, e.risk_amount)
                            THEN RMul(RDiv(pnl, e.risk_amount), R(100)) ELSE Zero,
          status |-> status ]

\* sum(t.pnl for t in ts)
RECURSIVE SumPnl(_)
SumPnl(ts) == IF ts = <<>> THEN Zero ELSE RAdd(ts[1].pnl, SumPnl(Tail(ts)))

\* mutant: a breakeven trade is counted as a winner
Winning_NonNegative(ts) == SelectSeq(ts, LAMBDA t : RLe(Zero, t.pnl))

\* [t for t in ts if t.pnl > 0], [... < 0], [... == 0]
Winning(ts) == SelectSeq(ts, LAMBDA t : RLt(Zero, t.pnl))
Losing(ts) == SelectSeq(ts, LAMBDA t : RLt(t.pnl, Zero))
Breakeven(ts) == SelectSeq(ts, LAMBDA t : t.pnl = Zero)

\* mutant: without losses the profit factor is the gross profit
ProfitFactor_Unguarded(gross_profit, gross_loss) ==
    IF RLt(Zero, gross_loss) THEN RDiv(gross_profit, gross_loss) ELSE gross_profit

\* profit_factor = gross_profit / gross_loss if gross_loss > 0 else 0
ProfitFactor(gross_profit, gross_loss) ==
    IF RLt(Zero, gross_loss) THEN RDiv(gross_profit, gross_loss) ELSE Zero

\* the loop of _calculate_max_drawdown from element k on
RECURSIVE DrawdownLoop(_, _, _, _)
DrawdownLoop(ec, k, peak, max_dd) ==
    IF k > Len(ec) THEN max_dd
    ELSE LET p == IF RLt(peak, ec[k]) THEN ec[k] ELSE peak
             dd == RDiv(RSub(p, ec[k]), p)
         IN  DrawdownLoop(ec, k + 1, p, IF RLt(max_dd, dd) THEN dd ELSE max_dd)

CB_calculate_max_drawdown(ec) ==
    IF Len(ec) < 2 THEN Zero
    ELSE RMul(DrawdownLoop(ec, 1, ec[1], Zero), R(100))

CB_empty_results ==
    [ total_trades |-> 0, winning_trades |-> 0, losing_trades |-> 0,
      win_rate |-> Zero, total_pnl |-> Zero, total_pnl_percent |-> Zero,
      avg_win |-> Zero, avg_loss |-> Zero, profit_factor |-> Zero,
      max_drawdown |-> Zero, sharpe_ratio |-> Zero, trades |-> <<>>,
      equity_curve |-> <<starting_balance>> ]

CB_calculate_stats(ts, ec) ==
    IF Len(ts) = 0 THEN CB_empty_results
    ELSE
    LET w == Winning(ts)
        l == Losing(ts)
        gross_profit == IF w # <<>> THEN SumPnl(w) ELSE Zero
        gross_loss == IF l # <<>> THEN RAbs(SumPnl(l)) ELSE Zero
    IN  [ total_trades |-> Len(ts),
          winning_trades |-> Len(w),
          losing_trades |-> Len(l),
          win_rate |-> RMul(Rat(Len(w), Len(ts)), R(100)),
          total_pnl |-> SumPnl(ts),
          total_pnl_percent |->
              RMul(RDiv(RSub(ec[Len(ec)], starting_balance), starting_balance), R(100)),
          avg_win |-> IF w # <<>> THEN RDiv(SumPnl(w), R(Len(w))) ELSE Zero,
          avg_loss |-> IF l # <<>> THEN RDiv(SumPnl(l), R(Len(l))) ELSE Zero,
          profit_factor |-> ProfitFactor(gross_profit, gross_loss),
          max_drawdown |-> CB_calculate_max_drawdown(ec),
          trades |-> ts,
          equity_curve |-> ec ]

\* backtest_strategy up to the loop: the length guard and the fresh locals
CB_Start ==
    /\ engine = "CB"
    /\ UNCHANGED <<signal_vars, risk_vars, tool_vars>>
    /\ pc \in {"idle", "done"}
    /\ Len(returned) < 2
    /\ trades' = <<>>
    /\ equity_curve' = <<starting_balance>>
    /\ current_balance' = starting_balance
    /\ in_trade' = FALSE
    /\ entry_data' = NoEntry
    /\ i' = MinWindow
    /\ signal' = Unbound
    /\ confidence' = 0
    /\ exit_reason' = Unbound
    /\ sig_rows' = 0
    /\ current_price' = Zero
    /\ IF Len(df) < MinWindow
         THEN /\ pc' = "done"
              /\ returned' = Append(returned, CB_empty_results)
         ELSE /\ pc' = "loop"
              /\ returned' = returned
    /\ UNCHANGED <<engine, df, sigmemo, peak_equity, trough_equity, self_trades, be>>

\* one iteration of the for loop
CB_Bar ==
    /\ engine = "CB"
    /\ UNCHANGED <<signal_vars, risk_vars, tool_vars>>
    /\ pc = "loop"
    /\ i < Len(df)
    /\ \E out \in SignalOutcomes :
         LET price == R(Row(i).close)
             sig == CB_Signal(out)
             conf == CB_Confidence(out)
             e == CB_Entry(i, sig, conf, current_balance)
             t == CB_Trade(entry_data, i, price, "CLOSED")
         IN
         /\ Answers(SignalFrame(i), out)
         /\ current_price' = price
         /\ signal' = sig
         /\ confidence' = conf
         /\ IF CB_EntryCond(in_trade, sig, conf)
              THEN /\ IF RLt(Zero, e.risk_distance)
                        THEN in_trade' = TRUE /\ entry_data' = e
                        ELSE UNCHANGED <<in_trade, entry_data>>
                   /\ UNCHANGED <<trades, current_balance, equity_curve, exit_reason>>
              ELSE IF in_trade /\ CB_ExitCond(entry_data, price, sig)
                THEN /\ trades' = Append(trades, t)
                     /\ current_balance' = RAdd(current_balance, t.pnl)
                     /\ equity_curve' = Append(equity_curve, RAdd(current_balance, t.pnl))
                     /\ exit_reason' = CB_ExitReason(entry_data, price)
                     /\ in_trade' = FALSE
                     /\ entry_data' = NoEntry
                ELSE UNCHANGED <<in_trade, entry_data, trades, current_balance,
                                 equity_curve, exit_reason>>
    /\ i' = i + 1
    /\ UNCHANGED <<engine, df, pc, returned, peak_equity, trough_equity, self_trades, be>>

\* after the loop: the open position is closed at the last close, then the statistics
CB_Finish ==
    /\ engine = "CB"
    /\ UNCHANGED <<signal_vars, risk_vars, tool_vars>>
    /\ pc = "loop"
    /\ i >= Len(df)
    /\ LET t == CB_Trade(entry_data, Len(df) - 1, R(LastRow.close), "OPEN")
           ts == IF in_trade THEN Append(trades, t) ELSE trades
           bal == IF in_trade THEN RAdd(current_balance, t.pnl) ELSE current_balance
           ec == IF in_trade THEN Append(equity_curve, bal) ELSE equity_curve
       IN  /\ trades' = ts
           /\ current_balance' = bal
           /\ equity_curve' = ec
           /\ returned' = Append(returned, CB_calculate_stats(ts, ec))
    /\ pc' = "done"
    /\ UNCHANGED <<engine, df, sigmemo, i, sig_rows, current_price, signal, confidence,
                   in_trade, entry_data, exit_reason, peak_equity, trough_equity,
                   self_trades, be>>

(***************************************************************************)
(* BacktestEngine                                                          *)
(***************************************************************************)
\* atr = latest.get('ATR', current_price * 0.02)
BE_ATR(bar) == GetATR(bar, RMul(R(bar.close), Rat(2, 100)))

BE_StopLoss(sig, price, atr) ==
    IF sig = "BUY" THEN RSub(price, RMul(atr, R(2))) ELSE RAdd(price, RMul(atr, R(2)))

BE_TakeProfit(sig, price, atr) ==
    IF sig = "BUY" THEN RAdd(price, RMul(atr, R(4))) ELSE RSub(price, RMul(atr, R(4)))

\* mutant: the risk amount fixed at construction (self.max_risk_amount)
BE_RiskAmount_Fixed(balance) == RMul(starting_balance, risk_per_trade)

\* risk_amount = self.current_balance * self.risk_per_trade
BE_RiskAmount(balance) == RMul(balance, risk_per_trade)

\* position_size = risk_amount / risk_distance if risk_distance > 0 else 0
BE_PositionSize(balance, price, stop) ==
    LET risk_distance == RAbs(RSub(price, stop))
    IN  IF RLt(Zero, risk_distance)
          THEN RDiv(BE_RiskAmount(balance), risk_distance) ELSE Zero

\* the locals after the entry block at bar j with signal sig
BE_EntryLocals(l, j, sig, balance) ==
    LET price == R(Row(j).close)
        atr == BE_ATR(Row(j))
        stop == BE_StopLoss(sig, price, atr)
        size == BE_PositionSize(balance, price, stop)
        sized == [l EXCEPT !.stop_loss = stop,
                           !.take_profit = BE_TakeProfit(sig, price, atr),
                           !.position_size = size]
    IN  IF RLt(Zero, size)
          THEN [sized EXCEPT !.entry_price = price, !.entry_index = j,
                             !.entry_signal = sig, !.entry_atr = atr]
          ELSE sized

\* trade_result of the exit block: "STOP_LOSS", "TAKE_PROFIT" or "None"
BE_TradeResult(l, price) ==
    IF l.entry_signal = "BUY"
      THEN IF RLe(price, l.stop_loss) THEN "STOP_LOSS"
           ELSE IF RLe(l.take_profit, price) THEN "TAKE_PROFIT" ELSE "None"
      ELSE IF RLe(l.stop_loss, price) THEN "STOP_LOSS"
           ELSE IF RLe(price, l.take_profit) THEN "TAKE_PROFIT" ELSE "None"

BE_ExitPrice(l, trade_result) ==
    IF trade_result = "STOP_LOSS" THEN l.stop_loss ELSE l.take_profit

BE_Pnl(l, exit_price) ==
    IF l.entry_signal = "BUY"
      THEN RMul(RSub(exit_price, l.entry_price), l.position_size)
      ELSE RMul(RSub(l.entry_price, exit_price), l.position_size)

BE_TradeRecord(l, j, trade_result) ==
    LET exit_price == BE_ExitPrice(l, trade_result)
        pnl == BE_Pnl(l, exit_price)
    IN  [ entry_bar |-> l.entry_index, exit_bar |-> j,
          entry_price |-> l.entry_price, exit_price |-> exit_price,
          direction |-> l.entry_signal, position_size |-> l.position_size,
          pnl |-> pnl,
          pnl_percent |-> IF RLt(Zero, l.entry_price)
                            THEN RMul(RDiv(pnl, RMul(l.entry_price, l.position_size)), R(100))
                            ELSE Zero,
          exit_reason |-> trade_result,
          bars_held |-> j - l.entry_index ]

\* _calculate_max_consecutive_losses from trade k on
RECURSIVE ConsecutiveLoop(_, _, _, _)
ConsecutiveLoop(ts, k, consecutive, max_consecutive) ==
    IF k > Len(ts) THEN max_consecutive
    ELSE IF RLt(ts[k].pnl, Zero)
      THEN ConsecutiveLoop(ts, k + 1, consecutive + 1,
                           IF consecutive + 1 > max_consecutive
                             THEN consecutive + 1 ELSE max_consecutive)
      ELSE ConsecutiveLoop(ts, k + 1, 0, max_consecutive)

BE_calculate_max_consecutive_losses(ts) == ConsecutiveLoop(ts, 1, 0, 0)

RECURSIVE SumBarsHeld(_)
SumBarsHeld(ts) == IF ts = <<>> THEN 0 ELSE ts[1].bars_held + SumBarsHeld(Tail(ts))

\* max_drawdown = (trough - peak) / peak * 100 if peak > 0 else 0
BE_MaxDrawdown(peak, trough) ==
    IF RLt(Zero, peak) THEN RMul(RDiv(RSub(trough, peak), peak), R(100)) ELSE Zero

\* _calculate_backtest_metrics on the attributes of the engine
BE_calculate_backtest_metrics(ts, balance, ec, peak, trough) ==
    IF ts = <<>>
      THEN [ total_trades |-> 0, winning_trades |-> 0, losing_trades |-> 0,
             win_rate |-> Zero, total_pnl |-> Zero,
             message |-> "No trades generated" ]
      ELSE
      LET w == Winning(ts)
          l == Losing(ts)
          total_losses == RAbs(SumPnl(l))
      IN  [ total_trades |-> Len(ts),
            winning_trades |-> Len(w),
            losing_trades |-> Len(l),
            win_rate |-> RMul(Rat(Len(w), Len(ts)), R(100)),
            avg_win |-> IF Len(w) > 0 THEN RDiv(SumPnl(w), R(Len(w))) ELSE Zero,
            avg_loss |-> IF Len(l) > 0 THEN RDiv(SumPnl(l), R(Len(l))) ELSE Zero,
            profit_factor |-> ProfitFactor(SumPnl(w), total_losses),
            total_pnl |-> SumPnl(ts),
            total_pnl_percent |->
                RMul(RDiv(RSub(balance, starting_balance), starting_balance), R(100)),
            final_balance |-> balance,
            peak_equity |-> peak,
            trough_equity |-> trough,
            max_drawdown |-> BE_MaxDrawdown(peak, trough),
            max_consecutive_losses |-> BE_calculate_max_consecutive_losses(ts),
            avg_bars_held |-> Rat(SumBarsHeld(ts), Len(ts)),
            starting_balance |-> starting_balance,
            equity_curve |-> ec ]

\* a returned dict holds self.equity_curve itself, not a copy: appending to
\* the list shows in every dict returned earlier
Aliased(rs, ec) ==
    [k \in DOMAIN rs |->
        IF "final_balance" \in DOMAIN rs[k]
          THEN [rs[k] EXCEPT !.equity_curve = ec] ELSE rs[k]]

\* backtest_signal up to the loop: fresh locals, the attributes are kept
BE_Start ==
    /\ engine = "BE"
    /\ UNCHANGED <<signal_vars, risk_vars, tool_vars>>
    /\ pc \in {"idle", "done"}
    /\ Len(returned) < 2
    /\ trades' = <<>>
    /\ in_trade' = FALSE
    /\ be' = NoLocals
    /\ i' = MinWindow
    /\ signal' = Unbound
    /\ sig_rows' = 0
    /\ current_price' = Zero
    /\ pc' = "loop"
    /\ UNCHANGED <<engine, df, sigmemo, returned, confidence, entry_data, exit_reason,
                   equity_curve, current_balance, peak_equity, trough_equity,
                   self_trades>>

\* one iteration of the for loop
BE_Bar ==
    /\ engine = "BE"
    /\ UNCHANGED <<signal_vars, risk_vars, tool_vars>>
    /\ pc = "loop"
    /\ i < Len(df)
    /\ \E out \in SignalOutcomes :
         LET price == R(Row(i).close)
             result == BE_TradeResult(be, price)
             t == BE_TradeRecord(be, i, result)
             bal == RAdd(current_balance, t.pnl)
         IN
         /\ Answers(SignalFrame(i), out)
         /\ current_price' = price
         /\ IF out.raises
              THEN \* except: continue
                   UNCHANGED <<signal, in_trade, be, trades, current_balance,
                               equity_curve, peak_equity, trough_equity, returned>>
              ELSE
              /\ signal' = out.signal
              /\ IF ~in_trade
                   THEN /\ IF out.signal \in {"BUY", "SELL"}
                             THEN /\ be' = BE_EntryLocals(be, i, out.signal, current_balance)
                                  /\ in_trade' = RLt(Zero, be'.position_size)
                             ELSE UNCHANGED <<be, in_trade>>
                        /\ UNCHANGED <<trades, current_balance, equity_curve,
                                       peak_equity, trough_equity, returned>>
                   ELSE IF result # "None"
                     THEN /\ trades' = Append(trades, t)
                          /\ current_balance' = bal
                          /\ equity_curve' = Append(equity_curve, bal)
                          /\ returned' = Aliased(returned, Append(equity_curve, bal))
                          /\ peak_equity' = IF RLt(peak_equity, bal) THEN bal ELSE peak_equity
                          /\ trough_equity' = IF RLt(bal, trough_equity) THEN bal ELSE trough_equity
                          /\ in_trade' = FALSE
                          /\ be' = be
                     ELSE UNCHANGED <<be, in_trade, trades, current_balance, equity_curve,
                                      peak_equity, trough_equity, returned>>
    /\ i' = i + 1
    /\ UNCHANGED <<engine, df, pc, confidence, entry_data, exit_reason, self_trades>>

\* after the loop: self.trades = trades, then the metrics
BE_Finish ==
    /\ engine = "BE"
    /\ UNCHANGED <<signal_vars, risk_vars, tool_vars>>
    /\ pc = "loop"
    /\ i >= Len(df)
    /\ self_trades' = trades
    /\ returned' = Append(returned,
           BE_calculate_backtest_metrics(trades, current_balance, equity_curve,
                                         peak_equity, trough_equity))
    /\ pc' = "done"
    /\ UNCHANGED <<engine, df, sigmemo, i, sig_rows, current_price, signal, confidence,
                   in_trade, entry_data, exit_reason, trades, equity_curve,
                   current_balance, peak_equity, trough_equity, be>>

Next == CB_Start \/ CB_Bar \/ CB_Finish \/ BE_Start \/ BE_Bar \/ BE_Finish

Spec == Init /\ [][Next]_vars

(***************************************************************************)
(* Properties.                                                             *)
(***************************************************************************)
\* the bar the loop has just handled
Handled == i - 1
Running == pc = "loop" /\ i > MinWindow
LastReturned == returned[Len(returned)]
\* entry and exit bar of a recorded trade, and of the open position
EntryBarOf(t) == IF engine = "CB" THEN t.entry_time ELSE t.entry_bar
ExitBarOf(t) == IF engine = "CB" THEN t.exit_time ELSE t.exit_bar
PositionBar == IF engine = "CB" THEN entry_data.entry_bar ELSE be.entry_index

\* C1: at every bar i the signal function is given exactly the rows 0..i
\* (i + 1 rows, never a later row), and what is decided at bar i rests on
\* the close and ATR of bar i: the price of the bar, the entry price and ATR
\* of a position are those of its entry bar, a trade never exits after the
\* bar being handled.
C1_NoLookahead ==
    (pc \in {"loop", "done"} /\ i > MinWindow) =>
        /\ sig_rows = Handled + 1
        /\ current_price = R(Row(Handled).close)
        /\ Len(returned) = 0 =>
             \A r \in DOMAIN sigmemo : sigmemo[r] # NotAsked => r <= Handled + 1
        /\ (in_trade /\ engine = "CB") =>
             /\ entry_data.entry_bar <= Handled
             /\ entry_data.entry_price = R(Row(entry_data.entry_bar).close)
             /\ entry_data.atr = CB_ATR(Row(entry_data.entry_bar))
        /\ (in_trade /\ engine = "BE") =>
             /\ be.entry_index <= Handled
             /\ be.entry_price = R(Row(be.entry_index).close)
             /\ be.entry_atr = BE_ATR(Row(be.entry_index))
        /\ \A k \in DOMAIN trades :
             /\ ExitBarOf(trades[k]) <= Handled
             /\ engine = "CB" => trades[k].exit_price = R(Row(trades[k].exit_time).close)

\* a position is open after a bar that is not the last one of the series
C1_Witness ==
    /\ pc = "loop" /\ in_trade
    /\ i = MinWindow + 2 /\ i < Len(df)
    /\ PositionBar = MinWindow

\* C2: a second run on the same engine object with the same series and
\* signal function starts from the starting balance, with an equity curve
\* holding only the starting balance and no peak or trough carried over, and
\* returns the result of the first run.
C2_RunIsolation ==
    /\ (Len(returned) = 1 /\ pc = "loop" /\ i = MinWindow) =>
          /\ current_balance = starting_balance
          /\ equity_curve = <<starting_balance>>
          /\ peak_equity = starting_balance
          /\ trough_equity = starting_balance
    /\ Len(returned) = 2 => returned[1] = returned[2]

\* would a bar whose signal is NEUTRAL close the open position at this price
NeutralCloses(price) ==
    IF engine = "CB" THEN CB_ExitCond(entry_data, price, "NEUTRAL")
    ELSE BE_TradeResult(be, price) # "None"

\* C3: a bar on which the signal function raises is handled as a bar whose
\* signal is NEUTRAL: the loop goes on, no position is opened, and the exit
\* check of an open position is made on that bar.
C3_RaiseIsNeutral ==
    [][ (pc = "loop" /\ i' = i + 1 /\ sigmemo'[sig_rows'] = Raise) =>
          /\ pc' = "loop"
          /\ ~in_trade => (~in_trade' /\ trades' = trades
                           /\ current_balance' = current_balance)
          /\ in_trade =>
               IF NeutralCloses(R(Row(i).close))
                 THEN ~in_trade' /\ Len(trades') = Len(trades) + 1
                 ELSE in_trade' /\ trades' = trades ]_vars

\* the stop and the target of the open position, as the claim words them
StopTriggers(e, price) ==
    IF e.signal = "BUY" THEN RLe(price, e.stop_loss) ELSE RLe(e.stop_loss, price)
TargetTriggers(e, price) ==
    IF e.signal = "BUY" THEN RLe(e.take_profit, price) ELSE RLe(price, e.take_profit)
StaysOpen ==
    /\ in_trade' /\ entry_data' = entry_data
    /\ UNCHANGED <<trades, current_balance, equity_curve>>

C5_ForceClose ==
    (pc = "done" /\ in_trade) =>
        /\ trades # <<>>
        /\ EntryBarOf(trades[Len(trades)]) = PositionBar
        /\ trades[Len(trades)].exit_price = R(LastRow.close)
        /\ Len(equity_curve) >= 2
        /\ equity_curve[Len(equity_curve)] = current_balance
        /\ current_balance =
             RAdd(equity_curve[Len(equity_curve) - 1], trades[Len(trades)].pnl)

\* C6: backtest_strategy opens a position on a bar only if none is open,
\* the signal of the bar is BUY or SELL and its confidence is at least 55;
\* a signal arriving while a position is open never opens or reverses one.
C6_EntryGate ==
    [][ (engine = "CB" /\ pc = "loop" /\ i' = i + 1) =>
          /\ (~in_trade /\ in_trade') =>
               /\ signal' \in {"BUY", "SELL"}
               /\ confidence' >= 55
               /\ entry_data'.signal = signal'
               /\ entry_data'.entry_bar = i
          /\ (~in_trade /\ ~in_trade') => entry_data' = NoEntry
          /\ in_trade => (entry_data' = entry_data \/ (~in_trade' /\ entry_data' = NoEntry))
      ]_vars

\* a position has just been opened at the bar handled
C6_Witness ==
    /\ engine = "CB" /\ pc = "loop" /\ in_trade
    /\ entry_data.entry_bar = Handled
    /\ entry_data.confidence = 55

\* C7 as claimed: every trade's entry bar is strictly before its exit bar
\* and strictly after the exit bar of the trade before it.
C7_TradesStrictlyOrdered ==
    \A k \in DOMAIN trades :
        /\ EntryBarOf(trades[k]) < ExitBarOf(trades[k])
        /\ k > 1 => ExitBarOf(trades[k - 1]) < EntryBarOf(trades[k])

\* C7 amended: the run starts flat; a trade closed inside the loop has its
\* entry bar strictly before its exit bar; only the position that
\* backtest_strategy closes after the loop may have been opened on its exit
\* bar, the last one; every trade, and the open position, is entered
\* strictly after the exit bar of the trade before it.
C7_TradesOrdered ==
    /\ (pc = "loop" /\ i = MinWindow) => (~in_trade /\ trades = <<>>)
    /\ \A k \in DOMAIN trades :
         /\ EntryBarOf(trades[k]) <= ExitBarOf(trades[k])
         /\ EntryBarOf(trades[k]) = ExitBarOf(trades[k]) =>
              /\ engine = "CB" /\ pc = "done" /\ k = Len(trades)
              /\ trades[k].status = "OPEN"
              /\ ExitBarOf(trades[k]) = Len(df) - 1
         /\ k > 1 => ExitBarOf(trades[k - 1]) < EntryBarOf(trades[k])
    /\ (pc = "loop" /\ in_trade /\ trades # <<>>) =>
         ExitBarOf(trades[Len(trades)]) < PositionBar

\* two trades, the second entered after the first was left
C7_Witness ==
    /\ Len(trades) = 2
    /\ ExitBarOf(trades[1]) < EntryBarOf(trades[2])

\* the largest element of a non-empty set of rationals
RMaxOf(S) == CHOOSE x \in S : \A y \in S : RLe(y, x)
\* peak_k: the running maximum of ec[1..k]
RunningPeak(ec, k) == RMaxOf({ ec[j] : j \in 1..k })
\* max over k of (peak_k - equity_k) / peak_k x 100
DrawdownOf(ec) ==
    RMaxOf({ RMul(RDiv(RSub(RunningPeak(ec, k), ec[k]), RunningPeak(ec, k)), R(100)) :
               k \in 1..Len(ec) })

\* C8: the max drawdown a backtest reports is the maximum over its equity
\* curve of (peak_k - equity_k) / peak_k x 100, peak_k the running maximum,
\* and is never negative.
C8_MaxDrawdown ==
    (pc = "done" /\ "max_drawdown" \in DOMAIN LastReturned) =>
        /\ LastReturned.max_drawdown = DrawdownOf(LastReturned.equity_curve)
        /\ RLe(Zero, LastReturned.max_drawdown)

DirectionSign(d) == IF d = "BUY" THEN R(1) ELSE R(-1)

\* C9: in backtest_strategy every trade's pnl is (exit price - entry price)
\* x quantity x direction sign; each trade adds its pnl to the balance and
\* one point to the equity curve, so the curve has one point more than
\* there are trades, point k is the starting balance plus the pnl of the
\* first k trades, and in the result total_pnl is the final equity minus
\* the starting balance.
C9_PnlAccounting ==
    (engine = "CB" /\ pc \in {"loop", "done"}) =>
        /\ \A k \in DOMAIN trades :
             trades[k].pnl =
               RMul(RMul(RSub(trades[k].exit_price, trades[k].entry_price),
                         trades[k].quantity),
                    DirectionSign(trades[k].direction))
        /\ Len(equity_curve) = Len(trades) + 1
        /\ \A k \in 0..Len(trades) :
             equity_curve[k + 1] = RAdd(starting_balance, SumPnl(SubSeq(trades, 1, k)))
        /\ current_balance = equity_curve[Len(equity_curve)]
        /\ pc = "done" =>
             /\ LastReturned.total_trades = Len(trades)
             /\ Len(LastReturned.equity_curve) = LastReturned.total_trades + 1
             /\ LastReturned.equity_curve = equity_curve
             /\ LastReturned.total_pnl =
                  RSub(LastReturned.equity_curve[Len(LastReturned.equity_curve)],
                       starting_balance)

\* a finished run with two trades, a SELL among them, that moved the balance
C9_Witness ==
    /\ engine = "CB" /\ pc = "done"
    /\ Len(trades) = 2
    /\ \E k \in DOMAIN trades : trades[k].direction = "SELL" /\ trades[k].pnl # Zero
    /\ current_balance # starting_balance

\* the size the claim gives a position entered at price with stop stop
SizeOf(price, stop) ==
    RDiv(RMul(current_balance, risk_per_trade), RAbs(RSub(price, stop)))

\* C10: the quantity of the open position is (balance at its entry bar x
\* risk fraction) / |entry - stop loss| (the balance does not move while it
\* is open), and the stop loss, take profit, ATR, quantity and entry price
\* recorded at entry are the same after every later bar until it is closed.
C10_EntrySnapshot ==
    /\ [] ( (pc = "loop" /\ in_trade) =>
              /\ engine = "CB" =>
                   entry_data.quantity = SizeOf(entry_data.entry_price, entry_data.stop_loss)
              /\ engine = "BE" =>
                   be.position_size = SizeOf(be.entry_price, be.stop_loss) )
    /\ [][ (pc = "loop" /\ in_trade /\ in_trade') =>
              (entry_data' = entry_data /\ be' = be) ]_vars

\* a position held over a later bar that carried a signal of its own
C10_Witness ==
    /\ pc = "loop" /\ in_trade
    /\ Handled > PositionBar
    /\ signal \in {"BUY", "SELL"}


\* result.get(key) is present and 0
ReportsZero(r, key) == key \in DOMAIN r /\ r[key] = Zero

\* C11: a backtest of a series shorter than the minimum window returns
\* without failing, every result it returns has zero trades, win rate, pnl,
\* profit factor, drawdown and Sharpe ratio 0 and an equity curve holding only
\* the starting balance, and the signal function is never called.
C11_ShortHistoryZeroed ==
    Len(df) < MinWindow =>
        /\ pc = "done" => returned # <<>>
        /\ \A r \in 1..Len(df) : sigmemo[r] = NotAsked
        /\ sig_rows = 0
        /\ \A k \in DOMAIN returned :
             LET r == returned[k] IN
             /\ r.total_trades = 0
             /\ r.win_rate = Zero
             /\ r.total_pnl = Zero
             /\ ReportsZero(r, "profit_factor")
             /\ ReportsZero(r, "max_drawdown")
             /\ ReportsZero(r, "sharpe_ratio")
             /\ "equity_curve" \in DOMAIN r
             /\ r.equity_curve = <<starting_balance>>


(***************************************************************************)
(* The statistics functions applied to closed trade lists:                 *)
(* ComprehensiveBacktester._calculate_stats and                            *)
(* BacktestEngine._calculate_backtest_metrics.                             *)
(***************************************************************************)
MaxTrades == 5

\* the pnl of a closed trade: a loss, a breakeven, a win
PnlKinds == { -100, 0, 150 }

\* the k-th closed trade of a list, with pnl x
ClosedTrade(k, x) ==
    [ entry_time |-> MinWindow + 2 * (k - 1), exit_time |-> MinWindow + 2 * k - 1,
      entry_bar |-> MinWindow + 2 * (k - 1), exit_bar |-> MinWindow + 2 * k - 1,
      direction |-> "BUY", pnl |-> R(x), bars_held |-> 1 ]

TradeLists ==
    UNION { { [k \in 1..n |-> ClosedTrade(k, x[k])] : x \in [1..n -> PnlKinds] } :
            n \in 0..MaxTrades }

\* the equity curve the loop builds while closing ts: the balance after
\* every trade, from the starting balance on
EquityOf(ts) ==
    [k \in 1..(Len(ts) + 1) |-> RAdd(starting_balance, SumPnl(SubSeq(ts, 1, k - 1)))]

\* the state at the call of the statistics function, after a loop that
\* closed the trades ts
StatsInit ==
    /\ engine \in {"CB", "BE"}
    /\ df = <<>>
    /\ sigmemo = <<>>
    /\ pc = "stats"
    /\ returned = <<>>
    /\ i = 0
    /\ sig_rows = 0
    /\ current_price = Zero
    /\ signal = Unbound
    /\ confidence = 0
    /\ in_trade = FALSE
    /\ entry_data = NoEntry
    /\ exit_reason = Unbound
    /\ trades \in TradeLists
    /\ equity_curve = EquityOf(trades)
    /\ current_balance = equity_curve[Len(equity_curve)]
    /\ peak_equity = CHOOSE x \in { equity_curve[k] : k \in DOMAIN equity_curve } :
                        \A k \in DOMAIN equity_curve : RLe(equity_curve[k], x)
    /\ trough_equity = CHOOSE x \in { equity_curve[k] : k \in DOMAIN equity_curve } :
                        \A k \in DOMAIN equity_curve : RLe(x, equity_curve[k])
    /\ self_trades = <<>>
    /\ be = NoLocals
    /\ NoEngines

\* return self._calculate_stats(symbol, asset_type, timeframe, trades, equity_curve)
CB_ReturnStats ==
    /\ engine = "CB"
    /\ UNCHANGED <<signal_vars, risk_vars, tool_vars>>
    /\ pc = "stats"
    /\ returned' = Append(returned, CB_calculate_stats(trades, equity_curve))
    /\ pc' = "done"
    /\ UNCHANGED <<engine, df, sigmemo, i, sig_rows, current_price, signal, confidence,
                   in_trade, entry_data, exit_reason, trades, equity_curve,
                   current_balance, peak_equity, trough_equity, self_trades, be>>

\* self.trades = trades; return self._calculate_backtest_metrics()
BE_ReturnMetrics ==
    /\ engine = "BE"
    /\ UNCHANGED <<signal_vars, risk_vars, tool_vars>>
    /\ pc = "stats"
    /\ self_trades' = trades
    /\ returned' = Append(returned,
           BE_calculate_backtest_metrics(trades, current_balance, equity_curve,
                                         peak_equity, trough_equity))
    /\ pc' = "done"
    /\ UNCHANGED <<engine, df, sigmemo, i, sig_rows, current_price, signal, confidence,
                   in_trade, entry_data, exit_reason, trades, equity_curve,
                   current_balance, peak_equity, trough_equity, be>>

StatsNext == CB_ReturnStats \/ BE_ReturnMetrics

SpecStats == StatsInit /\ [][StatsNext]_vars

\* the trades of ts with x for which Test(pnl) holds, counted one by one
CountPnl(ts, Test(_)) == Cardinality({ k \in DOMAIN ts : Test(ts[k].pnl) })

IsWin(x) == RLt(Zero, x)
IsLoss(x) == RLt(x, Zero)
IsEven(x) == x = Zero

\* C12: in the statistics of a non-empty trade list every trade is counted
\* in exactly one of winning (pnl > 0), losing (pnl < 0), breakeven
\* (pnl = 0): the three counts are those of the three classes, they add up
\* to total_trades, and win_rate = winning / total_trades x 100.
C12_TradeClasses ==
    \A n \in DOMAIN returned :
        LET r == returned[n] IN
        r.total_trades > 0 =>
            /\ r.total_trades = Len(trades)
            /\ r.winning_trades = CountPnl(trades, IsWin)
            /\ r.losing_trades = CountPnl(trades, IsLoss)
            /\ Len(Breakeven(trades)) = CountPnl(trades, IsEven)
            /\ r.winning_trades + r.losing_trades + Len(Breakeven(trades))
                 = r.total_trades
            /\ r.win_rate = RMul(Rat(r.winning_trades, r.total_trades), R(100))

\* three losing trades, then two winning ones, were summarised: win rate 40
C12_Witness ==
    /\ returned # <<>>
    /\ Len(trades) = 5
    /\ \A k \in 1..3 : IsLoss(trades[k].pnl)
    /\ \A k \in 4..5 : IsWin(trades[k].pnl)
    /\ returned[1].win_rate = R(40)
    /\ returned[1].winning_trades = 2
    /\ returned[1].losing_trades = 3


\* the sum of the pnl of the trades of ts whose pnl passes Test
SumPnlWhere(ts, Test(_)) ==
    LET acc[k \in 0..Len(ts)] ==
            IF k = 0 THEN Zero
            ELSE IF Test(ts[k].pnl) THEN RAdd(acc[k - 1], ts[k].pnl) ELSE acc[k - 1]
    IN  acc[Len(ts)]

MinHistory == 50

\* a NaN cell
NaN == <<0, 0>>
IsNa(x) == x = NaN

\* row.get(col, default): the default stands for a missing column only
Get(row, col, default) == IF col \in DOMAIN row THEN row[col] ELSE default

\* x if pd.notna(x) else default
NotNaOr(x, default) == IF IsNa(x) THEN default ELSE x

\* a > b, a >= b on floats: False when either side is NaN
Gt(a, b) == ~IsNa(a) /\ ~IsNa(b) /\ RLt(b, a)
Ge(a, b) == ~IsNa(a) /\ ~IsNa(b) /\ RLe(b, a)

\* x * k on floats: NaN stays NaN
Times(x, k) == IF IsNa(x) THEN NaN ELSE RMul(x, k)

RMin(a, b) == IF RLt(b, a) THEN b ELSE a

\* += 1 under an if
Vote(b) == IF b THEN 1 ELSE 0

\* the if / elif / else on the vote counts
TrendDirection(bullish_signals, bearish_signals) ==
    IF bullish_signals >= 3 THEN "BULLISH"
    ELSE IF bearish_signals >= 3 THEN "BEARISH"
    ELSE IF bullish_signals > bearish_signals THEN "BULLISH"
    ELSE IF bearish_signals > bullish_signals THEN "BEARISH"
    ELSE "NEUTRAL"

\* confidence as assigned in the same branches, before the floor of 50
TrendRawConfidence(bullish_signals, bearish_signals) ==
    LET of(n) == RMin(R(100), RMul(Rat(n, 6), R(100)))
    IN  IF bullish_signals >= 3 THEN of(bullish_signals)
        ELSE IF bearish_signals >= 3 THEN of(bearish_signals)
        ELSE IF bullish_signals > bearish_signals THEN of(bullish_signals)
        ELSE IF bearish_signals > bullish_signals THEN of(bearish_signals)
        ELSE R(50)

evaluate_trend_strength(d) ==
    LET latest == d[Len(d)]
        close == latest.close
        ema_10 == NotNaOr(Get(latest, "EMA_10", NaN), close)
        ema_20 == NotNaOr(Get(latest, "EMA_20", NaN), close)
        ema_50 == NotNaOr(Get(latest, "EMA_50", NaN), close)
        sma_200 == NotNaOr(Get(latest, "SMA_200", NaN), close)
        adx == NotNaOr(Get(latest, "ADX", R(25)), R(25))
        st_trend == NotNaOr(Get(latest, "Supertrend_Trend", R(1)), R(1))
        aroon_up == NotNaOr(Get(latest, "Aroon_Up", R(50)), R(50))
        aroon_down == NotNaOr(Get(latest, "Aroon_Down", R(50)), R(50))
        bullish_signals ==
            Vote(Gt(ema_10, ema_20)) + Vote(Gt(ema_20, ema_50)) +
            Vote(Gt(close, sma_200)) + Vote(Gt(adx, R(20))) +
            Vote(st_trend = R(1)) + Vote(Gt(aroon_up, aroon_down))
        bearish_signals == 6 - bullish_signals
    IN  [ trend |-> TrendDirection(bullish_signals, bearish_signals),
          confidence |-> RMin(R(100), RMax(R(50),
                             TrendRawConfidence(bullish_signals, bearish_signals))),
          bullish_signals |-> bullish_signals,
          bearish_signals |-> bearish_signals ]

\* the credit of each momentum indicator
RsiCredit(rsi) ==
    IF Gt(rsi, R(30)) /\ Gt(R(80), rsi) THEN R(1)
    ELSE IF Ge(rsi, R(50)) THEN Rat(1, 2) ELSE Zero

MacdCredit(d, macd_hist) ==
    IF Gt(macd_hist, Zero) THEN R(1)
    ELSE IF Len(d) > 1
      THEN LET prev_hist == NotNaOr(Get(d[Len(d) - 1], "MACD_Histogram", Zero), Zero)
           IN  IF Gt(prev_hist, Zero) /\ Gt(macd_hist, Times(prev_hist, Rat(1, 2)))
                 THEN Rat(3, 10) ELSE Zero
      ELSE Zero

RocCredit(roc) ==
    IF Gt(roc, Zero) THEN R(1)
    ELSE IF Gt(roc, Rat(-1, 2)) THEN Rat(3, 10) ELSE Zero

WilliamsCredit(williams_r) ==
    IF Gt(williams_r, R(-80)) /\ Gt(R(-20), williams_r) THEN R(1)
    ELSE IF Gt(williams_r, R(-95)) /\ Gt(Zero, williams_r) THEN Rat(3, 10) ELSE Zero

MfiCredit(mfi) ==
    IF Gt(mfi, R(30)) /\ Gt(R(90), mfi) THEN R(1)
    ELSE IF Gt(mfi, R(40)) THEN Rat(3, 10) ELSE Zero

\* mutant: the confidence is reported as computed, without the floor
evaluate_momentum_confirmation_Unfloored(d) ==
    LET latest == d[Len(d)]
        rsi == NotNaOr(Get(latest, "RSI", NaN), R(50))
        macd_hist == NotNaOr(Get(latest, "MACD_Histogram", NaN), Zero)
        roc == NotNaOr(Get(latest, "ROC", NaN), Zero)
        williams_r == NotNaOr(Get(latest, "Williams_R", NaN), R(-50))
        mfi == NotNaOr(Get(latest, "MFI", NaN), R(50))
        confirmation_score ==
            RAdd(RAdd(RAdd(RAdd(RsiCredit(rsi), MacdCredit(d, macd_hist)),
                           RocCredit(roc)), WilliamsCredit(williams_r)), MfiCredit(mfi))
        raw_confidence == RMin(R(100), RMul(RDiv(confirmation_score, R(5)), R(100)))
    IN  [ confirmed |-> RLe(Rat(3, 2), confirmation_score),
          confidence |-> raw_confidence,
          score |-> confirmation_score ]

evaluate_momentum_confirmation(d) ==
    LET latest == d[Len(d)]
        rsi == NotNaOr(Get(latest, "RSI", NaN), R(50))
        macd_hist == NotNaOr(Get(latest, "MACD_Histogram", NaN), Zero)
        roc == NotNaOr(Get(latest, "ROC", NaN), Zero)
        williams_r == NotNaOr(Get(latest, "Williams_R", NaN), R(-50))
        mfi == NotNaOr(Get(latest, "MFI", NaN), R(50))
        confirmation_score ==
            RAdd(RAdd(RAdd(RAdd(RsiCredit(rsi), MacdCredit(d, macd_hist)),
                           RocCredit(roc)), WilliamsCredit(williams_r)), MfiCredit(mfi))
        raw_confidence == RMin(R(100), RMul(RDiv(confirmation_score, R(5)), R(100)))
    IN  [ confirmed |-> RLe(Rat(3, 2), confirmation_score),
          confidence |-> RMin(R(100), RMax(R(50), raw_confidence)),
          score |-> confirmation_score ]

evaluate_volume_confirmation(d) ==
    LET latest == d[Len(d)]
        current_volume == latest.volume
        volume_ma == Get(latest, "Volume_MA", current_volume)
        obv == Get(latest, "OBV", Zero)
        cmf == Get(latest, "CMF", Zero)
        volume_ok == Ge(current_volume, Times(volume_ma, Rat(4, 10)))
        obv_bullish == Len(d) > 1 /\ Gt(obv, Get(d[Len(d) - 1], "OBV", obv))
        cmf_bullish == Gt(cmf, Rat(-1, 10))
        combined_score == Vote(volume_ok) + Vote(obv_bullish) + Vote(cmf_bullish)
    IN  [ confirmed |-> combined_score >= 1,
          confidence |-> RMin(R(100), RMul(Rat(combined_score, 3), R(100))),
          volume_check |-> volume_ok,
          obv_bullish |-> obv_bullish,
          cmf_bullish |-> cmf_bullish ]

evaluate_volatility_condition(d) ==
    LET natr == Get(d[Len(d)], "NATR", Zero)
    IN  [ acceptable |-> ~Gt(natr, R(10)), natr |-> natr ]

\* mutant: the direction follows the trend alone
SignalRule_TrendOnly(trend, trend_conf, momentum_ok, momentum_conf) ==
    IF trend = "BULLISH" /\ RLt(R(45), trend_conf) THEN "BUY"
    ELSE IF trend = "BEARISH" /\ RLt(R(45), trend_conf) THEN "SELL"
    ELSE "NEUTRAL"

\* mutant: the two confidences must be above 60
SignalRule_Above60(trend, trend_conf, momentum_ok, momentum_conf) ==
    IF trend = "BULLISH" /\ RLt(R(60), trend_conf)
       /\ momentum_ok /\ RLt(R(60), momentum_conf) THEN "BUY"
    ELSE IF trend = "BEARISH" /\ RLt(R(60), trend_conf)
            /\ momentum_ok /\ RLt(R(60), momentum_conf) THEN "SELL"
    ELSE "NEUTRAL"

\* the if / elif / else that picks the signal
SignalRule(trend, trend_conf, momentum_ok, momentum_conf) ==
    IF trend = "BULLISH" /\ RLt(R(45), trend_conf)
       /\ momentum_ok /\ RLt(R(45), momentum_conf) THEN "BUY"
    ELSE IF trend = "BEARISH" /\ RLt(R(45), trend_conf)
            /\ momentum_ok /\ RLt(R(45), momentum_conf) THEN "SELL"
    ELSE "NEUTRAL"

\* mutant: a NEUTRAL decision keeps the averaged confidence
RuleConfidence_NeutralAverages(sig, trend_conf, momentum_conf, volume_ok) ==
    LET base_confidence == RDiv(RAdd(trend_conf, momentum_conf), R(2))
    IN  IF volume_ok THEN RMin(R(95), RAdd(base_confidence, R(5)))
        ELSE base_confidence

\* confidence as assigned in the branch of the signal
RuleConfidence(sig, trend_conf, momentum_conf, volume_ok) ==
    IF sig = "NEUTRAL" THEN Zero
    ELSE LET base_confidence == RDiv(RAdd(trend_conf, momentum_conf), R(2))
         IN  IF volume_ok THEN RMin(R(95), RAdd(base_confidence, R(5)))
             ELSE base_confidence

\* quality as assigned in the branch of the signal
RuleQuality(sig, conf) ==
    IF sig = "NEUTRAL" THEN "NEUTRAL (No-Trade)"
    ELSE IF RLt(R(80), conf) THEN "STRONG (A+)"
    ELSE IF RLt(R(65), conf) THEN "GOOD (B)"
    ELSE IF RLt(R(50), conf) THEN "WEAK (C)"
    ELSE "NEUTRAL (No-Trade)"

\* mutant: the stop and target distances of the backtester (2 and 4 ATR)
Setup_BacktestDistances(sig, price, atr, bars) ==
    LET base == [ entry |-> price, stop_loss |-> Zero, take_profit |-> Zero,
                  rr_ratio |-> Zero, position_size |-> Zero, atr |-> atr,
                  signal_bars |-> bars ]
        stop == IF sig = "BUY" THEN RSub(price, RMul(atr, R(2)))
                ELSE RAdd(price, RMul(atr, R(2)))
        target == IF sig = "BUY" THEN RAdd(price, RMul(atr, R(4)))
                  ELSE RSub(price, RMul(atr, R(4)))
    IN  IF sig = "NEUTRAL" THEN base
        ELSE [base EXCEPT !.stop_loss = stop, !.take_profit = target,
                          !.rr_ratio = R(2)]

\* the setup dict: entry, then stop, target and ratio of a BUY or a SELL
Setup(sig, price, atr, bars) ==
    LET base == [ entry |-> price, stop_loss |-> Zero, take_profit |-> Zero,
                  rr_ratio |-> Zero, position_size |-> Zero, atr |-> atr,
                  signal_bars |-> bars ]
        buy_stop == RSub(price, RMul(atr, Rat(5, 2)))
        buy_target == RAdd(price, RMul(atr, R(5)))
        sell_stop == RAdd(price, RMul(atr, Rat(5, 2)))
        sell_target == RSub(price, RMul(atr, R(5)))
    IN  IF sig = "BUY"
          THEN [base EXCEPT !.stop_loss = buy_stop, !.take_profit = buy_target,
                            !.rr_ratio = RDiv(RSub(buy_target, price),
                                              RSub(price, buy_stop))]
        ELSE IF sig = "SELL"
          THEN [base EXCEPT !.stop_loss = sell_stop, !.take_profit = sell_target,
                            !.rr_ratio = RDiv(RSub(price, sell_target),
                                              RSub(sell_stop, price))]
        ELSE base

\* mutant: one row less is still enough
InsufficientData_OneLess(d) == Len(d) < MinHistory - 1

\* if len(df) < 50
InsufficientData(d) == Len(d) < MinHistory

\* the sub-evaluators a call on d runs
Evaluators(d) ==
    IF InsufficientData(d) THEN {}
    ELSE {"trend", "momentum", "volume", "volatility"}

\* mutant: volume is a gate, no BUY or SELL without volume confirmation
apply_strict_signal_rules_VolumeGated(d) ==
    IF InsufficientData(d)
      THEN [ signal |-> "NEUTRAL", confidence |-> Zero,
             quality |-> "INSUFFICIENT_DATA",
             setup |-> [ entry |-> Zero, stop_loss |-> Zero, take_profit |-> Zero,
                         rr_ratio |-> Zero ] ]
      ELSE
      LET trend_eval == evaluate_trend_strength(d)
          momentum_eval == evaluate_momentum_confirmation(d)
          volume_eval == evaluate_volume_confirmation(d)
          volatility_eval == evaluate_volatility_condition(d)
          latest == d[Len(d)]
          price == latest.close
          atr == NotNaOr(Get(latest, "ATR", RMul(price, Rat(2, 100))),
                         RMul(price, Rat(2, 100)))
          sig == IF volume_eval.confirmed
                   THEN SignalRule(trend_eval.trend, trend_eval.confidence,
                                   momentum_eval.confirmed, momentum_eval.confidence)
                   ELSE "NEUTRAL"
          conf == RuleConfidence(sig, trend_eval.confidence,
                                 momentum_eval.confidence, volume_eval.confirmed)
      IN  [ signal |-> sig,
            confidence |-> RMin(R(100), RMax(Zero, conf)),
            quality |-> RuleQuality(sig, conf),
            setup |-> Setup(sig, price, atr, Len(d)),
            detailed_analysis |-> [ trend |-> trend_eval, momentum |-> momentum_eval,
                                    volume |-> volume_eval,
                                    volatility |-> volatility_eval ] ]

apply_strict_signal_rules(d) ==
    IF InsufficientData(d)
      THEN [ signal |-> "NEUTRAL", confidence |-> Zero,
             quality |-> "INSUFFICIENT_DATA",
             setup |-> [ entry |-> Zero, stop_loss |-> Zero, take_profit |-> Zero,
                         rr_ratio |-> Zero ] ]
      ELSE
      LET trend_eval == evaluate_trend_strength(d)
          momentum_eval == evaluate_momentum_confirmation(d)
          volume_eval == evaluate_volume_confirmation(d)
          volatility_eval == evaluate_volatility_condition(d)
          latest == d[Len(d)]
          price == latest.close
          atr == NotNaOr(Get(latest, "ATR", RMul(price, Rat(2, 100))),
                         RMul(price, Rat(2, 100)))
          sig == SignalRule(trend_eval.trend, trend_eval.confidence,
                            momentum_eval.confirmed, momentum_eval.confidence)
          conf == RuleConfidence(sig, trend_eval.confidence,
                                 momentum_eval.confidence, volume_eval.confirmed)
      IN  [ signal |-> sig,
            confidence |-> RMin(R(100), RMax(Zero, conf)),
            quality |-> RuleQuality(sig, conf),
            setup |-> Setup(sig, price, atr, Len(d)),
            detailed_analysis |-> [ trend |-> trend_eval, momentum |-> momentum_eval,
                                    volume |-> volume_eval,
                                    volatility |-> volatility_eval ] ]

\* the indicator readings the histories end with
TrendKinds ==
    [ EMA_10 : {R(99), R(101)}, EMA_50 : {R(99), R(101)}, SMA_200 : {R(99), R(101)},
      ADX : {R(15), R(30)}, Supertrend_Trend : {R(1), R(-1)},
      Aroon_Up : {R(30), R(70)} ]

MomentumKinds ==
    [ RSI : {R(25), R(50), R(85)}, MACD_Histogram : {R(-1), R(1)},
      ROC : {R(-1), Rat(-1, 4), R(1)}, Williams_R : {R(-50), R(-90), R(-98)},
      MFI : {R(20), R(50), R(95)} ]

VolumeKinds == [ volume : {R(30), R(100)}, OBV : {Zero, R(5)}, CMF : {Rat(-1, 5), Zero} ]

ATRKinds == { R(2), R(4), NaN }

\* six bullish votes, six bearish votes
AllBullish == [ EMA_10 |-> R(101), EMA_50 |-> R(99), SMA_200 |-> R(99),
                ADX |-> R(30), Supertrend_Trend |-> R(1), Aroon_Up |-> R(70) ]
AllBearish == [ EMA_10 |-> R(99), EMA_50 |-> R(101), SMA_200 |-> R(101),
                ADX |-> R(15), Supertrend_Trend |-> R(-1), Aroon_Up |-> R(30) ]

\* confirmed momentum, of every confidence
MomentumSamples ==
    { m \in MomentumKinds :
        m.ROC = m.MACD_Histogram /\ m.Williams_R = R(-50) /\ m.MFI = R(50) }

\* the columns every row carries
PlainRow == [ close |-> R(100), volume |-> R(100) ]
BaseRow == [ close |-> R(100), EMA_20 |-> R(100), Aroon_Down |-> R(50),
             Volume_MA |-> R(100), NATR |-> R(1) ]
BusyVolume == [ volume |-> R(100), OBV |-> Zero, CMF |-> Zero ]

\* a record with the fields of a and of b
Merge(a, b) == [k \in DOMAIN a \cup DOMAIN b |-> IF k \in DOMAIN a THEN a[k] ELSE b[k]]

IndicatorRow(t, m, v, a) == Merge(Merge(Merge(Merge(BaseRow, t), m), v), [ATR |-> a])

\* a row whose indicator cells are all NaN
NaNRow ==
    Merge(PlainRow,
          [k \in {"EMA_10", "EMA_20", "EMA_50", "SMA_200", "ADX", "Supertrend_Trend",
                  "Aroon_Up", "Aroon_Down", "RSI", "MACD_Histogram", "ROC",
                  "Williams_R", "MFI", "ATR"} |-> NaN])

LatestRows ==
    { IndicatorRow(t, m, BusyVolume, R(2)) : t \in TrendKinds, m \in MomentumKinds }
    \cup { IndicatorRow(t, m, v, a) : t \in {AllBullish, AllBearish},
                                      m \in MomentumSamples, v \in VolumeKinds,
                                      a \in ATRKinds }
    \cup { PlainRow, NaNRow }

\* the rows before the last one
EarlierRow == [ close |-> R(100), volume |-> R(100), MACD_Histogram |-> R(2),
                OBV |-> Zero ]

\* a history of n rows ending with row
History(n, row) == [k \in 1..n |-> IF k = n THEN row ELSE EarlierRow]

ShortHistories ==
    { <<>> } \cup
    { History(n, row) : n \in {1, MinHistory - 1},
                        row \in { IndicatorRow(AllBullish, m, BusyVolume, R(2)) :
                                    m \in MomentumSamples } \cup { PlainRow } }

\* no backtest engine constructed
NoBacktest ==
    /\ engine = "none"
    /\ sigmemo = <<>>
    /\ returned = <<>>
    /\ i = 0
    /\ sig_rows = 0
    /\ current_price = Zero
    /\ signal = Unbound
    /\ confidence = 0
    /\ in_trade = FALSE
    /\ entry_data = NoEntry
    /\ exit_reason = Unbound
    /\ trades = <<>>
    /\ equity_curve = <<>>
    /\ current_balance = Zero
    /\ peak_equity = Zero
    /\ trough_equity = Zero
    /\ self_trades = <<>>
    /\ be = NoLocals

backtest_vars == <<engine, sigmemo, returned, i, sig_rows, current_price, signal,
                   confidence, in_trade, entry_data, exit_reason, trades, equity_curve,
                   current_balance, peak_equity, trough_equity, self_trades, be>>

\* a history is at hand, no decision taken yet
SignalInit ==
    /\ NoBacktest
    /\ NoTools
    /\ pc = "idle"
    /\ df \in ShortHistories \cup { History(MinHistory, row) : row \in LatestRows }
    /\ decision = NoDecision
    /\ evaluated = {}
    /\ account_balance = Zero
    /\ peak_balance = Zero
    /\ validation_results = NoValidation

\* decision = EnhancedSignalEngine.apply_strict_signal_rules(df)
ApplyStrictSignalRules ==
    /\ pc = "idle"
    /\ decision' = apply_strict_signal_rules(df)
    /\ evaluated' = Evaluators(df)
    /\ pc' = "done"
    /\ UNCHANGED <<tool_vars, backtest_vars, df, risk_vars>>

SignalNext == ApplyStrictSignalRules

SpecSignal == SignalInit /\ [][SignalNext]_vars

Decided == pc = "done" /\ decision # NoDecision
LongEnough == Len(df) >= MinHistory

\* C14: for a history of at least 50 rows the decision is BUY iff the trend
\* is BULLISH, the trend confidence is above 45, the momentum is confirmed
\* and the momentum confidence is above 45; SELL iff the trend is BEARISH
\* with the same three other conditions; NEUTRAL in every other case.
C14_CompositeRule ==
    (Decided /\ LongEnough) =>
        LET t == evaluate_trend_strength(df)
            m == evaluate_momentum_confirmation(df)
            others == /\ RLt(R(45), t.confidence)
                      /\ m.confirmed
                      /\ RLt(R(45), m.confidence)
        IN  /\ decision.signal = "BUY" <=> (t.trend = "BULLISH" /\ others)
            /\ decision.signal = "SELL" <=> (t.trend = "BEARISH" /\ others)
            /\ decision.signal \in {"BUY", "SELL", "NEUTRAL"}

\* a bullish trend without confirmed momentum was decided NEUTRAL
C14_Witness ==
    /\ Decided /\ LongEnough
    /\ evaluate_trend_strength(df).trend = "BULLISH"
    /\ ~evaluate_momentum_confirmation(df).confirmed
    /\ decision.signal = "NEUTRAL"


\* C15: the confidence of a BUY or SELL decision is the average of the trend
\* confidence and the momentum confidence, plus 5 when the volume is
\* confirmed, and capped at 95 with or without that bonus.
C15_ConfidenceCapped ==
    (Decided /\ LongEnough /\ decision.signal \in {"BUY", "SELL"}) =>
        LET t == evaluate_trend_strength(df)
            m == evaluate_momentum_confirmation(df)
            v == evaluate_volume_confirmation(df)
            average == RDiv(RAdd(t.confidence, m.confidence), R(2))
            bonus == IF v.confirmed THEN R(5) ELSE Zero
        IN  /\ decision.confidence = RMin(R(95), RAdd(average, bonus))
            /\ RLe(decision.confidence, R(95))


\* C16: for every history the confidence of the decision lies in [0, 100],
\* and it is 0 whenever the decision is NEUTRAL.
C16_ConfidenceRange ==
    Decided =>
        /\ RLe(Zero, decision.confidence)
        /\ RLe(decision.confidence, R(100))
        /\ decision.signal = "NEUTRAL" => decision.confidence = Zero

\* a history with a full-confidence trend and unconfirmed momentum was
\* decided NEUTRAL
C16_Witness ==
    /\ Decided /\ LongEnough
    /\ evaluate_trend_strength(df).confidence = R(100)
    /\ ~evaluate_momentum_confirmation(df).confirmed
    /\ decision.signal = "NEUTRAL"
    /\ decision.confidence = Zero


\* C17: evaluate_trend_strength casts six votes, each bullish or bearish,
\* and returns the direction with the majority (with confidence votes / 6 x
\* 100); when the votes are tied three to three, or neither direction has
\* three votes, the trend is NEUTRAL.
C17_MajorityVote ==
    (Decided /\ LongEnough) =>
        LET t == decision.detailed_analysis.trend
            bullish == t.bullish_signals
            bearish == t.bearish_signals
        IN  /\ bullish \in 0..6
            /\ bearish = 6 - bullish
            /\ (bullish > bearish /\ bullish >= 3) =>
                   /\ t.trend = "BULLISH"
                   /\ t.confidence = RMul(Rat(bullish, 6), R(100))
            /\ (bearish > bullish /\ bearish >= 3) =>
                   /\ t.trend = "BEARISH"
                   /\ t.confidence = RMul(Rat(bearish, 6), R(100))
            /\ (bullish = bearish \/ (bullish < 3 /\ bearish < 3)) =>
                   t.trend = "NEUTRAL"


\* C18: the setup of a BUY has stop-loss = entry - 2.5 x ATR and take-profit
\* = entry + 5 x ATR, the setup of a SELL has stop-loss = entry + 2.5 x ATR
\* and take-profit = entry - 5 x ATR, in both rr_ratio = |take-profit -
\* entry| / |entry - stop-loss|, where entry is the last close and ATR the
\* last row's ATR; in a NEUTRAL decision stop-loss, take-profit and rr_ratio
\* are left at 0.
C18_SetupLevels ==
    (Decided /\ LongEnough) =>
        LET last == df[Len(df)]
            setup == decision.setup
            entry == setup.entry
            atr == IF IsNa(Get(last, "ATR", NaN)) THEN setup.atr ELSE last.ATR
            ratio == RDiv(RAbs(RSub(setup.take_profit, entry)),
                          RAbs(RSub(entry, setup.stop_loss)))
        IN  /\ entry = last.close
            /\ decision.signal = "BUY" =>
                   /\ setup.stop_loss = RSub(entry, RMul(Rat(5, 2), atr))
                   /\ setup.take_profit = RAdd(entry, RMul(R(5), atr))
                   /\ setup.rr_ratio = ratio
            /\ decision.signal = "SELL" =>
                   /\ setup.stop_loss = RAdd(entry, RMul(Rat(5, 2), atr))
                   /\ setup.take_profit = RSub(entry, RMul(R(5), atr))
                   /\ setup.rr_ratio = ratio
            /\ decision.signal = "NEUTRAL" =>
                   /\ setup.stop_loss = Zero
                   /\ setup.take_profit = Zero
                   /\ setup.rr_ratio = Zero

\* a BUY at 100 with ATR 2: stop 95, target 110
C18_Witness ==
    /\ Decided /\ LongEnough
    /\ decision.signal = "BUY"
    /\ df[Len(df)].ATR = R(2)
    /\ decision.setup.entry = R(100)
    /\ decision.setup.stop_loss = R(95)
    /\ decision.setup.take_profit = R(110)
    /\ decision.setup.rr_ratio = R(2)


\* C19: a call with a history of fewer than 50 rows returns (it does not
\* raise) the decision NEUTRAL with quality INSUFFICIENT_DATA, confidence 0
\* and a setup whose entry, stop-loss, take-profit and rr_ratio are all 0,
\* and runs none of the sub-evaluators.
C19_InsufficientData ==
    (pc = "done" /\ ~LongEnough) =>
        /\ decision # NoDecision
        /\ decision.signal = "NEUTRAL"
        /\ decision.quality = "INSUFFICIENT_DATA"
        /\ decision.confidence = Zero
        /\ decision.setup = [ entry |-> Zero, stop_loss |-> Zero,
                              take_profit |-> Zero, rr_ratio |-> Zero ]
        /\ evaluated = {}

\* a history of 49 rows whose last row has six bullish votes and confirmed
\* momentum was answered
C19_Witness ==
    /\ pc = "done"
    /\ Len(df) = MinHistory - 1
    /\ evaluate_trend_strength(df).bullish_signals = 6
    /\ evaluate_momentum_confirmation(df).confirmed
    /\ decision.quality = "INSUFFICIENT_DATA"


(***************************************************************************)
(* EnhancedRiskManager (src/src/enhanced_risk_manager.py): one manager is  *)
(* constructed, then enforce_risk_rules and validate_drawdown are called   *)
(* on it.  A reason is the mark and the subject of the message appended.   *)
(***************************************************************************)
\* the balances a manager is constructed with, and those passed to
\* validate_drawdown
RiskBalances == { Zero, R(7500), R(10000) }
ProbeBalances == { Zero, R(5000), R(10000), R(14000) }

\* a call that ended in ZeroDivisionError
ZeroDivision == [raises |-> "ZeroDivisionError"]

\* an argument left at its default None
NoneArg == <<0, 0>>

validate_risk_reward_ratio(entry, stop_loss, take_profit, min_ratio) ==
    LET risk == RAbs(RSub(entry, stop_loss))
        reward == RAbs(RSub(take_profit, entry))
    IN  IF RLe(risk, Zero)
          THEN [ valid |-> FALSE, ratio |-> Zero, reason |-> "Invalid stop loss",
                 risk |-> risk, reward |-> reward ]
          ELSE [ valid |-> RLe(min_ratio, RDiv(reward, risk)),
                 ratio |-> RDiv(reward, risk), reason |-> "RR Ratio",
                 risk |-> risk, reward |-> reward, entry |-> entry,
                 stop_loss |-> stop_loss, take_profit |-> take_profit ]

validate_market_conditions(d) ==
    IF Len(d) < 20
      THEN [ valid |-> FALSE, reasons |-> <<"Insufficient data">> ]
      ELSE
      LET latest == d[Len(d)]
          current_volume == latest.volume
          volume_ma == Get(latest, "Volume_MA", current_volume)
          adx == Get(latest, "ADX", Zero)
          volume_check == Ge(current_volume, Times(volume_ma, Rat(1, 2)))
          adx_check == Gt(adx, R(20))
      IN  [ valid |-> volume_check /\ adx_check,
            reasons |-> << IF volume_check THEN "OK Volume Check" ELSE "X Low Volume",
                           IF adx_check THEN "OK Strong Trend" ELSE "X Weak Trend" >>,
            conditions |-> [ volume_check |-> volume_check, adx_check |-> adx_check ] ]

\* mutant: the peak follows the balance passed, down as well as up
RaisedPeak_Latest(balance, peak) == balance

\* self.peak_balance after the first statement of validate_drawdown
RaisedPeak(balance, peak) == IF RLt(peak, balance) THEN balance ELSE peak

\* mutant: a drawdown equal to the ceiling exceeds it
validate_drawdown_OrEqual(balance, max_drawdown_percent, peak) ==
    LET p == RaisedPeak(balance, peak)
        drawdown == RMul(RDiv(RSub(p, balance), p), R(100))
    IN  IF p = Zero THEN ZeroDivision
        ELSE [ drawdown_percent |-> drawdown, max_allowed |-> max_drawdown_percent,
               exceeded |-> RLe(max_drawdown_percent, drawdown),
               peak_balance |-> p, current_balance |-> balance ]

\* validate_drawdown on a manager whose peak_balance is peak
validate_drawdown(balance, max_drawdown_percent, peak) ==
    LET p == RaisedPeak(balance, peak)
        drawdown == RMul(RDiv(RSub(p, balance), p), R(100))
    IN  IF p = Zero THEN ZeroDivision
        ELSE [ drawdown_percent |-> drawdown, max_allowed |-> max_drawdown_percent,
               exceeded |-> RLt(max_drawdown_percent, drawdown),
               peak_balance |-> p, current_balance |-> balance ]

check_stop_loss_validity(entry, stop_loss, atr, min_sl_distance) ==
    LET distance == RAbs(RSub(entry, stop_loss))
        min_distance == IF min_sl_distance = NoneArg THEN atr ELSE min_sl_distance
    IN  [ valid |-> RLe(min_distance, distance), distance |-> distance,
          min_distance |-> min_distance, atr_used |-> atr ]

check_take_profit_validity(entry, take_profit, atr) ==
    LET distance == RAbs(RSub(take_profit, entry))
        max_tp == RAdd(entry, RMul(atr, R(10)))
    IN  [ valid |-> RLt(Zero, distance) /\ RLt(distance, max_tp),
          distance |-> distance, max_distance |-> max_tp ]

\* mutant: the strict policy, every check is mandatory
Allowed_Strict(sig, rr_valid, sl_valid, tp_valid, market_valid, exceeded) ==
    sig # "NEUTRAL" /\ rr_valid /\ sl_valid /\ tp_valid /\ market_valid /\ ~exceeded

\* validation_results['allowed'] at the return: set False by the NEUTRAL
\* test and by an exceeded drawdown only
Allowed(sig, rr_valid, sl_valid, tp_valid, market_valid, exceeded) ==
    sig # "NEUTRAL" /\ ~exceeded

\* the market-conditions block: the check runs on 20 rows or more and is
\* skipped when it raises (no 'volume' column)
MarketCheck(d) ==
    IF Len(d) < 20 THEN [ran |-> FALSE, reasons |-> <<>>]
    ELSE IF "volume" \notin DOMAIN d[Len(d)]
      THEN [ran |-> FALSE, reasons |-> <<"! Market conditions check skipped">>]
    ELSE [ran |-> TRUE, reasons |-> validate_market_conditions(d).reasons,
          check |-> validate_market_conditions(d)]

\* enforce_risk_rules(trade_decision, df) on a manager with the given
\* account_balance and peak_balance: the dict returned and the peak left
enforce_risk_rules(trade_decision, d, balance, peak) ==
    LET sig == IF "signal" \in DOMAIN trade_decision THEN trade_decision.signal ELSE "None"
    IN
    IF sig = "NEUTRAL"
      THEN [ result |-> [ allowed |-> FALSE,
                          reasons |-> <<"X REJECTED: No Trade Signal (NEUTRAL)">>,
                          checks |-> {}, called |-> "enforce_risk_rules" ],
             peak_balance |-> peak ]
      ELSE
      LET entry == Get(trade_decision, "entry_price", Zero)
          stop_loss == Get(trade_decision, "stop_loss", Zero)
          take_profit == Get(trade_decision, "take_profit", Zero)
          atr0 == Get(trade_decision, "atr", Rat(1, 100))
          atr == IF RLe(atr0, Zero) THEN RMul(entry, Rat(2, 100)) ELSE atr0
          rr_check == validate_risk_reward_ratio(entry, stop_loss, take_profit, Rat(12, 10))
          sl_check == check_stop_loss_validity(entry, stop_loss, atr, RMul(atr, Rat(1, 2)))
          tp_check == check_take_profit_validity(entry, take_profit, atr)
          mkt == MarketCheck(d)
          drawdown_check == validate_drawdown(balance, R(25), peak)
          skipped == drawdown_check = ZeroDivision
          exceeded == ~skipped /\ drawdown_check.exceeded
          soft == << IF rr_check.valid THEN "OK RR" ELSE "! RR",
                     "OK Stop Loss", "OK Take Profit" >> \o mkt.reasons
          after_drawdown == IF skipped THEN Append(soft, "! Drawdown check skipped")
                            ELSE IF exceeded THEN <<"X BLOCKED: Drawdown">> \o soft
                            ELSE soft
          allowed == Allowed(sig, rr_check.valid, sl_check.valid, tp_check.valid,
                             ~mkt.ran \/ mkt.check.valid, exceeded)
      IN  [ result |->
              [ allowed |-> allowed,
                reasons |-> IF allowed THEN <<"APPROVED">> \o after_drawdown
                            ELSE after_drawdown,
                checks |-> [ risk_reward |-> rr_check, stop_loss |-> sl_check,
                             take_profit |-> tp_check,
                             market_conditions |-> IF mkt.ran THEN mkt.check
                                                   ELSE [valid |-> TRUE, reasons |-> <<>>],
                             drawdown |-> drawdown_check ],
                called |-> "enforce_risk_rules" ],
            peak_balance |-> IF skipped THEN peak ELSE drawdown_check.peak_balance ]

\* the levels of the decisions handed to the risk manager (entry 100)
LevelKinds ==
    { [ entry_price |-> R(100), stop_loss |-> R(95), take_profit |-> R(110), atr |-> R(2) ],
      [ entry_price |-> R(100), stop_loss |-> R(95), take_profit |-> R(104), atr |-> R(2) ],
      [ entry_price |-> R(100), stop_loss |-> Rat(199, 2), take_profit |-> R(300), atr |-> R(2) ],
      [ entry_price |-> R(100), stop_loss |-> R(100), take_profit |-> R(110), atr |-> Zero ] }

TradeDecisions ==
    { Merge([signal |-> "BUY"], l) : l \in LevelKinds }
    \cup { [ signal |-> "SELL", entry_price |-> R(100), stop_loss |-> R(105),
             take_profit |-> R(90) ],
           [ signal |-> "NEUTRAL", entry_price |-> R(100), stop_loss |-> Zero,
             take_profit |-> Zero, atr |-> R(2) ],
           [ signal |-> "BUY" ],
           [ entry_price |-> R(100) ] }

\* the last rows of the frames handed to the risk manager
MarketRows ==
    { [ close |-> R(100), volume |-> R(100), Volume_MA |-> R(100), ADX |-> R(30) ],
      [ close |-> R(100), volume |-> R(40), Volume_MA |-> R(100), ADX |-> R(15) ],
      [ close |-> R(100) ] }

MarketFrames ==
    { History(19, row) : row \in { [close |-> R(100), volume |-> R(40)] } }
    \cup { History(20, row) : row \in MarketRows }

\* EnhancedRiskManager(account_balance)
RiskInit ==
    /\ NoBacktest
    /\ NoTools
    /\ pc = "idle"
    /\ df = <<>>
    /\ decision = NoDecision
    /\ evaluated = {}
    /\ account_balance \in RiskBalances
    /\ peak_balance = account_balance
    /\ validation_results = NoValidation

\* risk_manager.enforce_risk_rules(trade_decision, df)
EnforceRiskRules ==
    \E td \in TradeDecisions, frame \in MarketFrames :
        LET out == enforce_risk_rules(td, frame, account_balance, peak_balance)
        IN  /\ decision' = td
            /\ df' = frame
            /\ validation_results' = out.result
            /\ peak_balance' = out.peak_balance
            /\ UNCHANGED <<tool_vars, backtest_vars, pc, evaluated, account_balance>>

\* risk_manager.validate_drawdown(current_balance), ceiling left at 10
ValidateDrawdown ==
    \E balance \in ProbeBalances :
        LET out == validate_drawdown(balance, R(10), peak_balance)
        IN  /\ validation_results' =
                  IF out = ZeroDivision
                    THEN [called |-> "validate_drawdown", raises |-> "ZeroDivisionError"]
                    ELSE Merge([called |-> "validate_drawdown"], out)
            /\ peak_balance' = RaisedPeak(balance, peak_balance)
            /\ UNCHANGED <<tool_vars, backtest_vars, pc, df, decision, evaluated, account_balance>>

RiskNext == EnforceRiskRules \/ ValidateDrawdown

SpecRisk == RiskInit /\ [][RiskNext]_vars

Enforced == validation_results.called = "enforce_risk_rules"

\* the drawdown of balance from peak is above ceiling percent
DrawdownExceeds(balance, peak, ceiling) ==
    /\ RLt(Zero, peak)
    /\ RLt(RMul(R(ceiling), peak), RMul(R(100), RSub(peak, balance)))

\* C20: enforce_risk_rules returns allowed = false iff the signal of the
\* decision is NEUTRAL or the drawdown of the account balance from the
\* tracked peak is above 25%; the risk:reward, stop-loss, take-profit and
\* market-condition checks each leave a reason and never change allowed.
C20_PermissivePolicy ==
    Enforced =>
        LET v == validation_results
            neutral == "signal" \in DOMAIN decision /\ decision.signal = "NEUTRAL"
        IN  /\ ~v.allowed <=>
                  (neutral \/ DrawdownExceeds(account_balance, peak_balance, 25))
            /\ ~neutral =>
                  /\ \E k \in DOMAIN v.reasons : v.reasons[k] \in {"OK RR", "! RR"}
                  /\ ~v.checks.risk_reward.valid =>
                         \E k \in DOMAIN v.reasons : v.reasons[k] = "! RR"
                  /\ \E k \in DOMAIN v.reasons : v.reasons[k] = "OK Stop Loss"
                  /\ \E k \in DOMAIN v.reasons : v.reasons[k] = "OK Take Profit"
                  /\ (Len(df) >= 20 /\ "volume" \in DOMAIN df[Len(df)]
                      /\ ~v.checks.market_conditions.valid) =>
                         \E k \in DOMAIN v.reasons :
                             v.reasons[k] \in {"X Low Volume", "X Weak Trend"}

\* a BUY whose risk:reward, stop-loss, take-profit and market checks all
\* fail was allowed
C20_Witness ==
    /\ Enforced
    /\ "signal" \in DOMAIN decision
    /\ decision.signal = "BUY"
    /\ ~validation_results.checks.risk_reward.valid
    /\ ~validation_results.checks.stop_loss.valid
    /\ ~validation_results.checks.take_profit.valid
    /\ ~validation_results.checks.market_conditions.valid
    /\ validation_results.allowed

\* the value validate_drawdown returned last, when it was called directly
\* and did not raise
Probed(v) == v.called = "validate_drawdown" /\ "raises" \notin DOMAIN v

\* C21: every validate_drawdown call leaves peak_balance at the maximum of
\* the peak before the call and the balance passed (so, from the
\* construction balance on, at the maximum of all balances seen): the peak
\* changes exactly when the balance passed is above it and never falls; the
\* drawdown_percent reported is (peak - balance) / peak x 100, is not
\* negative, and exceeded is true iff it is strictly above the ceiling.
C21_PeakTracking ==
    [][ /\ RLe(account_balance, peak_balance)
        /\ RLe(peak_balance, peak_balance')
        /\ Probed(validation_results') =>
              LET v == validation_results'
                  passed == v.current_balance
              IN  /\ peak_balance' = RMax(peak_balance, passed)
                  /\ (peak_balance' # peak_balance) <=> RLt(peak_balance, passed)
                  /\ v.peak_balance = peak_balance'
                  /\ RMul(v.drawdown_percent, peak_balance')
                         = RMul(R(100), RSub(peak_balance', passed))
                  /\ RLe(Zero, v.drawdown_percent)
                  /\ v.exceeded <=> RLt(v.max_allowed, v.drawdown_percent) ]_vars

\* a balance below a peak that an earlier call raised above the
\* construction balance was reported as exceeding the ceiling
C21_Witness ==
    /\ Probed(validation_results)
    /\ RLt(account_balance, peak_balance)
    /\ RLt(validation_results.current_balance, peak_balance)
    /\ validation_results.exceeded


(***************************************************************************)
(* Startup (src/src/bot_config.py, src/src/bot_engine.py,                  *)
(* src/src/comprehensive_backtest.py): a BotConfig is at hand, a           *)
(* SignalsBotEngine and a ComprehensiveBacktester are constructed, then    *)
(* assets are analysed and backtests entered.                              *)
(***************************************************************************)
\* the analyses and the backtests started on one engine
MaxAnalyses == 2

\* BotConfig.validate_config(): (is_valid, errors)
validate_config(c) ==
    LET Err(bad, msg) == IF bad THEN <<msg>> ELSE <<>>
        errors ==
            Err(RLe(c.account_balance, Zero), "Account balance must be positive")
            \o Err(~(RLt(Zero, c.risk_percent) /\ RLe(c.risk_percent, R(10))),
                   "Risk percent must be between 0 and 10")
            \o Err(RLt(c.min_rr_ratio, R(1)), "Min R:R ratio must be >= 1.0")
            \o Err(RLt(c.min_adx, R(10)), "Min ADX must be >= 10")
            \o Err(c.rsi_period < 5, "RSI period must be >= 5")
            \o Err(c.atr_period < 1, "ATR period must be >= 1")
            \o Err(c.backtest_lookback_days < 7, "Backtest lookback must be >= 7 days")
            \o Err(~(RLt(Zero, c.min_win_rate) /\ RLe(c.min_win_rate, R(1))),
                   "Min win rate must be between 0 and 1")
    IN  [ is_valid |-> errors = <<>>, errors |-> errors ]

\* the defaults of BotConfig._set_defaults that validate_config reads
DefaultConfig ==
    [ account_balance |-> R(DefaultBalance), risk_percent |-> R(1),
      min_rr_ratio |-> R(2), min_adx |-> R(20), rsi_period |-> 14,
      atr_period |-> 14, backtest_lookback_days |-> 30,
      min_win_rate |-> Rat(45, 100) ]

\* the configurations a config.json can hold: the defaults, the defaults
\* with one value replaced, and one with every value out of range
Configs ==
    { DefaultConfig }
    \cup { [DefaultConfig EXCEPT !.account_balance = b] : b \in { Zero, R(-100) } }
    \cup { [DefaultConfig EXCEPT !.risk_percent = x] : x \in { Zero, R(10), R(11) } }
    \cup { [DefaultConfig EXCEPT !.min_rr_ratio = Rat(1, 2)],
           [DefaultConfig EXCEPT !.min_adx = R(5)],
           [DefaultConfig EXCEPT !.rsi_period = 3],
           [DefaultConfig EXCEPT !.atr_period = 0],
           [DefaultConfig EXCEPT !.backtest_lookback_days = 5] }
    \cup { [DefaultConfig EXCEPT !.min_win_rate = w] : w \in { Zero, R(2) } }
    \cup { [ account_balance |-> Zero, risk_percent |-> R(11),
             min_rr_ratio |-> Rat(1, 2), min_adx |-> R(5), rsi_period |-> 3,
             atr_period |-> 0, backtest_lookback_days |-> 5, min_win_rate |-> Zero ] }

\* the arguments ComprehensiveBacktester is constructed with
StartingBalances == { R(-100), Zero, R(DefaultBalance) }
RiskPercents == { R(-2), Zero, R(2) }

\* nothing constructed yet
NotStarted ==
    [ engine |-> FALSE, warnings |-> <<>>, analyses |-> <<>>,
      backtester |-> FALSE, starting_balance |-> UnboundNum,
      risk_per_trade |-> UnboundNum, backtests |-> 0 ]

\* what analyze_single_asset returns, by what fetch_data returned: with 30
\* rows or more the call of enforce_risk_rules with keywords it does not
\* take raises TypeError, which the except clause turns into a NEUTRAL
analyze_single_asset(fetched) ==
    [ signal |-> "NEUTRAL", confidence |-> Zero,
      reason |-> CASE fetched = "empty" -> "No data available"
                   [] fetched = "short" -> "Insufficient historical data"
                   [] OTHER -> "Analysis error" ]

ConfigInit ==
    /\ NoBacktest
    /\ pc = "idle"
    /\ df = <<>>
    /\ decision = NoDecision
    /\ evaluated = {}
    /\ account_balance = Zero
    /\ peak_balance = Zero
    /\ validation_results = NoValidation
    /\ config \in Configs
    /\ bot = NotStarted
    /\ runner = <<>>
    /\ consecutive_losses = 0
    /\ cumulative_losses = Zero
    /\ recorded = <<>>
    /\ risk_summary = <<>>

\* SignalsBotEngine(config): the risk manager is built on the configured
\* balance, validation errors are logged as one warning
SignalsBotEngine_init ==
    /\ ~bot.engine
    /\ account_balance' = config.account_balance
    /\ peak_balance' = config.account_balance
    /\ bot' = [bot EXCEPT !.engine = TRUE,
                          !.warnings = IF validate_config(config).is_valid THEN <<>>
                                       ELSE <<validate_config(config).errors>>]
    /\ UNCHANGED <<backtest_vars, pc, df, signal_vars, validation_results, config,
                   runner, loss_vars>>

\* engine.analyze_single_asset(symbol, asset_type, timeframe)
AnalyzeSingleAsset ==
    /\ bot.engine
    /\ Len(bot.analyses) < MaxAnalyses
    /\ \E fetched \in {"empty", "short", "ok"} :
           bot' = [bot EXCEPT !.analyses = Append(@, analyze_single_asset(fetched))]
    /\ UNCHANGED <<backtest_vars, pc, df, signal_vars, risk_vars, config, runner,
                   loss_vars>>

\* ComprehensiveBacktester(starting_balance, risk_per_trade)
ComprehensiveBacktester_init ==
    /\ ~bot.backtester
    /\ \E balance \in StartingBalances, percent \in RiskPercents :
           bot' = [bot EXCEPT !.backtester = TRUE,
                              !.starting_balance = balance,
                              !.risk_per_trade = RDiv(percent, R(100))]
    /\ UNCHANGED <<backtest_vars, pc, df, signal_vars, risk_vars, config, runner,
                   loss_vars>>

\* backtester.backtest_strategy(...) is entered
BacktestStrategy ==
    /\ bot.backtester
    /\ bot.backtests < MaxAnalyses
    /\ bot' = [bot EXCEPT !.backtests = @ + 1]
    /\ UNCHANGED <<backtest_vars, pc, df, signal_vars, risk_vars, config, runner,
                   loss_vars>>

ConfigNext ==
    \/ SignalsBotEngine_init
    \/ AnalyzeSingleAsset
    \/ ComprehensiveBacktester_init
    \/ BacktestStrategy

SpecConfig == ConfigInit /\ [][ConfigNext]_vars

\* C22: an invalid configuration is fatal at startup: no engine is ever
\* constructed on a configuration validate_config rejects and no analysis is
\* started with it; no backtester is ever constructed on a balance that is
\* not positive or a risk fraction that is negative, and no simulation is
\* started with them.
C22_InvalidConfigFatal ==
    /\ (bot.engine \/ bot.analyses # <<>>) => validate_config(config).is_valid
    /\ (bot.backtester \/ bot.backtests > 0) =>
           /\ RLt(Zero, bot.starting_balance)
           /\ RLe(Zero, bot.risk_per_trade)


\* df with the volume evaluator's inputs replaced: volume, OBV and CMF of
\* the last row by those of v, Volume_MA by ma, OBV of the row before by prev
WithVolume(d, v, ma, prev) ==
    [d EXCEPT ![Len(d)] = Merge(Merge(v, [Volume_MA |-> ma]), @),
              ![Len(d) - 1] = Merge([OBV |-> prev], @)]

\* the volume inputs a history is compared under: every reading of the last
\* row over the usual moving average and a flat OBV, a thin volume over a
\* low moving average, and a rising OBV over a higher one before
VolumeAlternatives ==
    { <<v, R(100), Zero>> : v \in VolumeKinds }
    \cup { << [volume |-> R(30), OBV |-> Zero, CMF |-> Rat(-1, 5)], R(50), Zero >>,
           << [volume |-> R(30), OBV |-> R(5), CMF |-> Rat(-1, 5)], R(100), R(10) >> }

\* C23: the volume evaluator's inputs never change the direction: on every
\* history that differs from df in volume, Volume_MA, OBV and CMF only,
\* apply_strict_signal_rules returns the signal and the setup it returned on
\* df; the confidence and the quality are the same too when the volume
\* verdict is the same, and when the verdict differs on a BUY or SELL the
\* confirmed confidence is the unconfirmed one plus 5, at most 95.
C23_VolumeNeverGates ==
    (Decided /\ Len(df) >= 2) =>
        \A alt \in VolumeAlternatives :
            LET other_df == WithVolume(df, alt[1], alt[2], alt[3])
                other == apply_strict_signal_rules(other_df)
                here == evaluate_volume_confirmation(df).confirmed
                there == evaluate_volume_confirmation(other_df).confirmed
            IN  /\ other.signal = decision.signal
                /\ other.setup = decision.setup
                /\ here = there =>
                       /\ other.confidence = decision.confidence
                       /\ other.quality = decision.quality
                /\ (LongEnough /\ there /\ ~here /\ decision.signal # "NEUTRAL") =>
                       other.confidence = RMin(R(95), RAdd(decision.confidence, R(5)))

\* a BUY was decided on a history whose volume is not confirmed, and the
\* same history with confirming volume gives a different confidence
C23_Witness ==
    /\ Decided
    /\ LongEnough
    /\ decision.signal = "BUY"
    /\ ~evaluate_volume_confirmation(df).confirmed
    /\ \E v \in VolumeKinds :
           LET other_df == WithVolume(df, v, R(100), Zero)
           IN  /\ evaluate_volume_confirmation(other_df).confirmed
               /\ apply_strict_signal_rules(other_df).confidence # decision.confidence


\* the credits one indicator can add, and the scores five of them can sum to
Credits == { Zero, Rat(3, 10), Rat(1, 2), R(1) }
CreditSums ==
    { RAdd(RAdd(RAdd(RAdd(c[1], c[2]), c[3]), c[4]), c[5]) : c \in [1..5 -> Credits] }

\* the momentum evaluation of the decided history
Momentum == decision.detailed_analysis.momentum

\* what C24 says of the score and of confirmed
ScoreAsClaimed(m) ==
    /\ m.score \in CreditSums
    /\ RLe(Zero, m.score) /\ RLe(m.score, R(5))
    /\ m.confirmed <=> RLe(Rat(3, 2), m.score)

\* C24 as claimed: the momentum score is a sum of five credits from
\* {0, 0.3, 0.5, 1.0}, lies in [0, 5], confirmed is reported iff the score is
\* at least 1.5, and the confidence reported is score / 5 x 100.
C24_MomentumConfidence ==
    (Decided /\ LongEnough) =>
        /\ ScoreAsClaimed(Momentum)
        /\ Momentum.confidence = RMul(RDiv(Momentum.score, R(5)), R(100))

\* C24 amended: the score and confirmed are as claimed, and the confidence
\* reported is score / 5 x 100 raised to 50 when it is below 50.
C24_MomentumConfidenceFloored ==
    (Decided /\ LongEnough) =>
        /\ ScoreAsClaimed(Momentum)
        /\ Momentum.confidence = RMax(R(50), RMul(RDiv(Momentum.score, R(5)), R(100)))

\* a momentum evaluation with a score below 2.5 and one with a score above
\* it: here the first, confirmed, reporting the floor
C24_Witness ==
    /\ Decided
    /\ LongEnough
    /\ Momentum.confirmed
    /\ RLt(Momentum.score, Rat(5, 2))
    /\ Momentum.confidence = R(50)


(***************************************************************************)
(* check_take_profit_validity called on its own: the arguments are drawn   *)
(* at the start, the call leaves its result in validation_results.         *)
(***************************************************************************)
\* entry prices, take-profit minus entry, and ATR readings
EntryPrices == { R(60), R(100), R(1000) }
TargetOffsets == { R(-50), R(-10), Zero, R(10), R(19), R(20), R(21), R(50),
                   R(150), R(2000) }
TargetATRs == { Rat(1, 100), R(2), R(5) }

TakeProfitInit ==
    /\ NoBacktest
    /\ NoTools
    /\ pc = "idle"
    /\ df = <<>>
    /\ \E entry \in EntryPrices, offset \in TargetOffsets, atr \in TargetATRs :
           decision = [ entry_price |-> entry, take_profit |-> RAdd(entry, offset),
                        atr |-> atr ]
    /\ evaluated = {}
    /\ account_balance = R(DefaultBalance)
    /\ peak_balance = R(DefaultBalance)
    /\ validation_results = NoValidation

\* risk_manager.check_take_profit_validity(entry, take_profit, atr)
CheckTakeProfitValidity ==
    /\ pc = "idle"
    /\ validation_results' =
           Merge([called |-> "check_take_profit_validity"],
                 check_take_profit_validity(decision.entry_price, decision.take_profit,
                                            decision.atr))
    /\ pc' = "done"
    /\ UNCHANGED <<tool_vars, backtest_vars, df, signal_vars, account_balance,
                   peak_balance>>

TakeProfitNext == CheckTakeProfitValidity

SpecTakeProfit == TakeProfitInit /\ [][TakeProfitNext]_vars

\* C25: check_take_profit_validity returns valid = false for every
\* take-profit at distance 0 from the entry or further from it than
\* 10 x ATR, and valid = true for every take-profit at a positive distance
\* below 10 x ATR; the same distance and ATR get the same verdict at every
\* entry price.
C25_TakeProfitCeiling ==
    validation_results.called = "check_take_profit_validity" =>
        LET distance == RAbs(RSub(decision.take_profit, decision.entry_price))
            ceiling == RMul(R(10), decision.atr)
            valid == validation_results.valid
        IN  /\ (distance = Zero \/ RLt(ceiling, distance)) => ~valid
            /\ (RLt(Zero, distance) /\ RLt(distance, ceiling)) => valid
            /\ \A entry \in EntryPrices :
                   check_take_profit_validity(entry, RAdd(entry, distance),
                                              decision.atr).valid = valid


(***************************************************************************)
(* AssetBacktestRunner.run_all_backtests (src/run_comprehensive_backtest.py)*)
(* : three nested loops over asset types, symbols and timeframes; one step *)
(* is one pass of the innermost loop, run_backtest included.               *)
(***************************************************************************)
\* the symbols configured per asset type
MaxSymbols == 1

\* self.assets, cut to its first two asset types and the first MaxSymbols
\* symbols of each; both timeframes
AssetTypes == <<"crypto", "stock">>
Symbols(asset_type) ==
    SubSeq(IF asset_type = "crypto"
             THEN <<"BTC/USDT", "ETH/USDT", "SOL/USDT", "LINK/USDT">>
             ELSE <<"AAPL", "GOOGL", "MSFT", "NVDA">>, 1, MaxSymbols)
Timeframes == <<"1h", "4h">>

\* the (asset type, symbol, timeframe) triples in the order the loops visit
\* them: triple number n, counted from 0
TaskCount == Len(AssetTypes) * MaxSymbols * Len(Timeframes)
Task(n) ==
    LET per_type == MaxSymbols * Len(Timeframes)
        asset_type == AssetTypes[(n \div per_type) + 1]
    IN  [ asset_type |-> asset_type,
          symbol |-> Symbols(asset_type)[((n % per_type) \div Len(Timeframes)) + 1],
          timeframe |-> Timeframes[(n % Len(Timeframes)) + 1] ]

\* what one run_backtest call meets: fetch_data raises, returns an empty
\* frame, returns fewer than 100 candles; backtest_strategy raises, returns
\* results without trades, returns results with trades
BacktestOutcomes ==
    {"fetch_raises", "empty", "short", "backtest_raises", "no_trades", "trades"}

\* None, and a BacktestResults
NoResults == [total_trades |-> -1]
BacktestResults(n) == [total_trades |-> n]

\* run_backtest: None on insufficient data and on any exception
run_backtest(outcome) ==
    CASE outcome \in {"fetch_raises", "backtest_raises"} -> NoResults
      [] outcome \in {"empty", "short"} -> NoResults
      [] outcome = "no_trades" -> BacktestResults(0)
      [] OTHER -> BacktestResults(3)

\* mutant: results without trades count as false
Truthy_HasTrades(results) == results.total_trades > 0

\* `if results:` on None or a BacktestResults (a dataclass, always true)
Truthy(results) == results # NoResults

RunnerInit ==
    /\ NoBacktest
    /\ pc = "loop"
    /\ df = <<>>
    /\ decision = NoDecision
    /\ evaluated = {}
    /\ account_balance = Zero
    /\ peak_balance = Zero
    /\ validation_results = NoValidation
    /\ config = <<>>
    /\ bot = <<>>
    /\ runner = [ all_results |-> <<>>, total_tests |-> 0, successful_tests |-> 0,
                  outcome |-> "none" ]
    /\ consecutive_losses = 0
    /\ cumulative_losses = Zero
    /\ recorded = <<>>
    /\ risk_summary = <<>>

\* one pass of the innermost loop
RunBacktest ==
    /\ pc = "loop"
    /\ runner.total_tests < TaskCount
    /\ \E outcome \in BacktestOutcomes :
           LET task == Task(runner.total_tests)
               results == run_backtest(outcome)
           IN  runner' =
                 [ all_results |->
                       Append(runner.all_results,
                              [ asset_type |-> task.asset_type, symbol |-> task.symbol,
                                timeframe |-> task.timeframe,
                                results |-> IF Truthy(results) THEN results
                                            ELSE NoResults ]),
                   total_tests |-> runner.total_tests + 1,
                   successful_tests |-> IF Truthy(results)
                                          THEN runner.successful_tests + 1
                                          ELSE runner.successful_tests,
                   outcome |-> outcome ]
    /\ UNCHANGED <<backtest_vars, pc, df, signal_vars, risk_vars, bot_vars, loss_vars>>

\* the loops are over: the summary is logged, all_results returned
ReturnAllResults ==
    /\ pc = "loop"
    /\ runner.total_tests = TaskCount
    /\ pc' = "done"
    /\ UNCHANGED <<backtest_vars, df, signal_vars, risk_vars, tool_vars>>

RunnerNext == RunBacktest \/ ReturnAllResults

SpecRunner == RunnerInit /\ [][RunnerNext]_vars

\* the entries of all_results that hold results, and those that hold None
Successful(entries) == { k \in DOMAIN entries : entries[k].results # NoResults }
Failed(entries) == { k \in DOMAIN entries : entries[k].results = NoResults }

\* C26: run_all_backtests runs the configured (asset type, symbol,
\* timeframe) tasks one at a time in their configured order, each exactly
\* once: every pass adds the entry of the next task and changes no other
\* entry; the entry is None exactly when the task failed or had too few
\* candles; a failure never stops the loop, which can always go on until
\* every task has its entry; and successful + failed = total tasks, at the
\* return the number of configured triples.
C26_EveryTaskOnce ==
    [][ LET before == runner.all_results
            after == runner'.all_results
        IN  /\ runner' # runner =>
                 /\ Len(after) = Len(before) + 1
                 /\ SubSeq(after, 1, Len(before)) = before
                 /\ after[Len(after)].results = NoResults
                      <=> runner'.outcome \in {"fetch_raises", "empty", "short",
                                               "backtest_raises"}
            /\ \A k \in DOMAIN after :
                   /\ after[k].asset_type = Task(k - 1).asset_type
                   /\ after[k].symbol = Task(k - 1).symbol
                   /\ after[k].timeframe = Task(k - 1).timeframe
            /\ \A j, k \in DOMAIN after :
                   ( /\ after[j].asset_type = after[k].asset_type
                     /\ after[j].symbol = after[k].symbol
                     /\ after[j].timeframe = after[k].timeframe ) => j = k
            /\ runner'.total_tests = Len(after)
            /\ runner'.successful_tests = Cardinality(Successful(after))
            /\ Cardinality(Successful(after)) + Cardinality(Failed(after))
                   = runner'.total_tests
            /\ (pc = "loop" /\ Len(before) < TaskCount) => ENABLED RunBacktest
            /\ pc' = "done" => Len(after) = TaskCount ]_vars

\* the run returned with three tasks that recorded None and a later task,
\* the only successful one, that recorded its results
C26_Witness ==
    /\ pc = "done"
    /\ runner # <<>>
    /\ \E a, b, c, d \in DOMAIN runner.all_results :
           /\ a < d /\ b < d /\ c < d
           /\ runner.all_results[d].results # NoResults
           /\ { runner.all_results[a].results, runner.all_results[b].results,
                runner.all_results[c].results } = { NoResults }
           /\ Cardinality({a, b, c}) = 3
    /\ runner.successful_tests = 1


(***************************************************************************)
(* RiskManager (src/src/risk_manager.py): the loss record.  One manager is *)
(* constructed, then record_loss, record_win and get_risk_summary are      *)
(* called on it.                                                           *)
(***************************************************************************)
\* the record_loss / record_win calls made on one manager
MaxCalls == 5

\* self.max_consecutive_losses
MaxConsecutiveLosses == 3

\* the amounts passed to record_loss
LossAmounts == { R(50), R(150) }

\* get_risk_summary not called yet
NoSummary ==
    [ called |-> FALSE, consecutive_losses |-> 0, position_size_multiplier |-> Zero,
      position_reduction_reason |-> Unbound, cumulative_losses |-> Zero,
      trading_paused |-> FALSE ]

\* mutant: the pause comes one loss later
should_reduce_risk_after_losses_PauseAtFour(n) ==
    IF n = 0 THEN <<R(1), "Normal position size">>
    ELSE IF n = 1 THEN <<Rat(3, 4), "1 loss - reduce to 75% size">>
    ELSE IF n = 2 THEN <<Rat(1, 2), "2 losses - reduce to 50% size">>
    ELSE IF n = 3 THEN <<Rat(1, 4), "3 losses - reduce to 25% size">>
    ELSE IF n >= 4 THEN <<Zero, "consecutive losses - PAUSE TRADING">>
    ELSE <<R(1), "Unknown state">>

\* should_reduce_risk_after_losses() with self.consecutive_losses = n:
\* (position_size_multiplier, message)
should_reduce_risk_after_losses(n) ==
    IF n = 0 THEN <<R(1), "Normal position size">>
    ELSE IF n = 1 THEN <<Rat(3, 4), "1 loss - reduce to 75% size">>
    ELSE IF n = 2 THEN <<Rat(1, 2), "2 losses - reduce to 50% size">>
    ELSE IF n >= 3 THEN <<Zero, "consecutive losses - PAUSE TRADING">>
    ELSE <<R(1), "Unknown state">>

\* RiskManager()
LossInit ==
    /\ NoBacktest
    /\ pc = "idle"
    /\ df = <<>>
    /\ decision = NoDecision
    /\ evaluated = {}
    /\ account_balance = R(DefaultBalance)
    /\ peak_balance = R(DefaultBalance)
    /\ validation_results = NoValidation
    /\ config = <<>>
    /\ bot = <<>>
    /\ runner = <<>>
    /\ consecutive_losses = 0
    /\ cumulative_losses = Zero
    /\ recorded = <<>>
    /\ risk_summary = NoSummary

\* record_loss(loss_amount)
RecordLoss ==
    /\ Len(recorded) < MaxCalls
    /\ \E loss_amount \in LossAmounts :
           /\ cumulative_losses' = RAdd(cumulative_losses, loss_amount)
           /\ recorded' = Append(recorded, [op |-> "record_loss",
                                            loss_amount |-> loss_amount])
    /\ consecutive_losses' = consecutive_losses + 1
    /\ UNCHANGED <<backtest_vars, pc, df, signal_vars, risk_vars, bot_vars, runner,
                   risk_summary>>

\* record_win()
RecordWin ==
    /\ Len(recorded) < MaxCalls
    /\ consecutive_losses' = 0
    /\ recorded' = Append(recorded, [op |-> "record_win", loss_amount |-> Zero])
    /\ UNCHANGED <<backtest_vars, pc, df, signal_vars, risk_vars, bot_vars, runner,
                   cumulative_losses, risk_summary>>

\* get_risk_summary()
GetRiskSummary ==
    /\ risk_summary' =
           LET reduction == should_reduce_risk_after_losses(consecutive_losses)
           IN  [ called |-> TRUE,
                 consecutive_losses |-> consecutive_losses,
                 position_size_multiplier |-> reduction[1],
                 position_reduction_reason |-> reduction[2],
                 cumulative_losses |-> cumulative_losses,
                 trading_paused |-> consecutive_losses >= MaxConsecutiveLosses ]
    /\ UNCHANGED <<backtest_vars, pc, df, signal_vars, risk_vars, bot_vars, runner,
                   consecutive_losses, cumulative_losses, recorded>>

LossNext == RecordLoss \/ RecordWin \/ GetRiskSummary

SpecLoss == LossInit /\ [][LossNext]_vars

\* the calls made after the last record_win
SinceLastWin(calls) ==
    LET wins == { k \in DOMAIN calls : calls[k].op = "record_win" }
        last == IF wins = {} THEN 0 ELSE CHOOSE k \in wins : \A j \in wins : j <= k
    IN  SubSeq(calls, last + 1, Len(calls))

RECURSIVE SumLosses(_)
SumLosses(calls) ==
    IF calls = <<>> THEN Zero
    ELSE RAdd(calls[1].loss_amount, SumLosses(Tail(calls)))

\* C27: consecutive_losses is the number of losses recorded since the last
\* win, 0 right after a win; cumulative_losses is the sum of all loss
\* amounts recorded; should_reduce_risk_after_losses gives 1.0, 0.75, 0.5
\* for 0, 1, 2 consecutive losses and 0.0 for 3 or more; a summary reports
\* multiplier 0.0 exactly when it reports trading_paused; and a step that
\* ends a pause is a record_win.
C27_LossRecord ==
    [][ LET multiplier == should_reduce_risk_after_losses(consecutive_losses')[1]
            paused == consecutive_losses >= MaxConsecutiveLosses
            paused_after == consecutive_losses' >= MaxConsecutiveLosses
        IN  /\ consecutive_losses' = Len(SinceLastWin(recorded'))
            /\ (recorded' # <<>> /\ recorded'[Len(recorded')].op = "record_win")
                   => consecutive_losses' = 0
            /\ cumulative_losses' = SumLosses(recorded')
            /\ multiplier = CASE consecutive_losses' = 0 -> R(1)
                              [] consecutive_losses' = 1 -> Rat(3, 4)
                              [] consecutive_losses' = 2 -> Rat(1, 2)
                              [] OTHER -> Zero
            /\ multiplier = Zero <=> paused_after
            /\ risk_summary'.called =>
                   (risk_summary'.position_size_multiplier = Zero
                        <=> risk_summary'.trading_paused)
            /\ (paused /\ ~paused_after) =>
                   /\ Len(recorded') = Len(recorded) + 1
                   /\ recorded'[Len(recorded')].op = "record_win" ]_vars

\* after a win and three losses a fourth loss was recorded and the summary
\* taken then reports the pause
C27_Witness ==
    /\ Len(recorded) = MaxCalls
    /\ recorded[1].op = "record_win"
    /\ consecutive_losses = 4
    /\ risk_summary.called
    /\ risk_summary.trading_paused
    /\ risk_summary.consecutive_losses = 4
    /\ risk_summary.position_size_multiplier = Zero


(***************************************************************************)
(* ComprehensiveBacktester.backtest_strategy on series that hold a candle  *)
(* with close 0 and ATR 0, for which the stop distance is 0.               *)
(***************************************************************************)
\* candles after the warm-up rows
MaxEdgeBars == 2

EdgeBarKinds ==
    { [close |-> 0,    ATR |-> 0],
      [close |-> 1000, ATR |-> 0],
      [close |-> 996,  ATR |-> 2],
      [close |-> 1008, ATR |-> 2] }

EdgeFrames(n) ==
    { [k \in 1..(MinWindow + n) |-> IF k <= MinWindow THEN WarmBar ELSE t[k - MinWindow]] :
        t \in [1..n -> EdgeBarKinds] }

\* ComprehensiveBacktester(), then the series of the runs
StopsInit ==
    /\ engine = "CB"
    /\ \E n \in 0..MaxEdgeBars : df \in EdgeFrames(n)
    /\ sigmemo = [r \in 1..Len(df) |-> NotAsked]
    /\ pc = "idle"
    /\ returned = <<>>
    /\ i = 0
    /\ sig_rows = 0
    /\ current_price = Zero
    /\ signal = Unbound
    /\ confidence = 0
    /\ in_trade = FALSE
    /\ entry_data = NoEntry
    /\ exit_reason = Unbound
    /\ trades = <<>>
    /\ equity_curve = <<starting_balance>>
    /\ current_balance = starting_balance
    /\ peak_equity = starting_balance
    /\ trough_equity = starting_balance
    /\ self_trades = <<>>
    /\ be = NoLocals
    /\ NoEngines

StopsNext == CB_Start \/ CB_Bar \/ CB_Finish

SpecStops == StopsInit /\ [][StopsNext]_vars

\* the stop test and the target test of the exit logic at a price, each on
\* its own
StopHolds(e, price) ==
    IF e.signal = "BUY" THEN RLe(price, e.stop_loss) ELSE RLe(e.stop_loss, price)
TargetHolds(e, price) ==
    IF e.signal = "BUY" THEN RLe(e.take_profit, price) ELSE RLe(price, e.take_profit)

C29_ConfidenceFloors ==
    (Decided /\ LongEnough) =>
        LET t == decision.detailed_analysis.trend
            m == decision.detailed_analysis.momentum
        IN  /\ RLe(R(50), t.confidence) /\ RLe(t.confidence, R(100))
            /\ RLe(R(50), m.confidence) /\ RLe(m.confidence, R(100))
            /\ RLt(R(45), t.confidence) /\ RLt(R(45), m.confidence)
            /\ decision.signal = "BUY" <=> (t.trend = "BULLISH" /\ m.confirmed)
            /\ decision.signal = "SELL" <=> (t.trend = "BEARISH" /\ m.confirmed)
            /\ decision.signal \in {"BUY", "SELL"} => RLe(R(50), decision.confidence)

\* a BUY was decided on a trend of three votes and a momentum scored below
\* 2.5, which both report 50
C29_Witness ==
    /\ Decided
    /\ LongEnough
    /\ decision.signal = "BUY"
    /\ decision.detailed_analysis.trend.bullish_signals = 3
    /\ decision.detailed_analysis.trend.confidence = R(50)
    /\ RLt(decision.detailed_analysis.momentum.score, Rat(5, 2))
    /\ decision.detailed_analysis.momentum.confidence = R(50)


\* the peak is above account_balance / 0.75
Latched(peak) == RLt(RDiv(account_balance, Rat(3, 4)), peak)

\* C30: account_balance never changes and enforce_risk_rules checks the
\* drawdown of that balance: an enforce_risk_rules call leaves peak_balance
\* as it was, so that with enforce_risk_rules calls only the peak stays at
\* account_balance, the drawdown reported is 0 and every decision other
\* than NEUTRAL is allowed; the peak moves only in a direct validate_drawdown
\* call, to the balance passed; a decision other than NEUTRAL is rejected
\* only when such a call has raised the peak above account_balance / 0.75,
\* and once the peak is there it stays there and every enforce_risk_rules
\* call is rejected.
C30_DrawdownLatch ==
    [][ /\ account_balance' = account_balance
        /\ peak_balance' # peak_balance =>
               /\ Probed(validation_results')
               /\ validation_results'.current_balance = peak_balance'
               /\ RLt(peak_balance, peak_balance')
        /\ Latched(peak_balance) => Latched(peak_balance')
        /\ validation_results'.called = "enforce_risk_rules" =>
               LET v == validation_results'
                   neutral == "signal" \in DOMAIN decision'
                              /\ decision'.signal = "NEUTRAL"
               IN  /\ peak_balance' = peak_balance
                   /\ (~neutral /\ peak_balance' = account_balance) =>
                          /\ v.allowed
                          /\ v.checks.drawdown # ZeroDivision =>
                                 v.checks.drawdown.drawdown_percent = Zero
                   /\ (~neutral /\ ~v.allowed) => Latched(peak_balance')
                   /\ Latched(peak_balance') => ~v.allowed ]_vars

\* a BUY was rejected for the drawdown of the construction balance from a
\* peak that a direct validate_drawdown call had raised
C30_Witness ==
    /\ Enforced
    /\ "signal" \in DOMAIN decision
    /\ decision.signal = "BUY"
    /\ ~validation_results.allowed
    /\ validation_results.reasons[1] = "X BLOCKED: Drawdown"
    /\ Latched(peak_balance)
    /\ RLt(Zero, account_balance)

====
